---- MODULE Spec2Model ----
(***************************************************************************)
(* laterna_api: the cart store and the checkout state machine.             *)
(*                                                                         *)
(* The database holds sale.order records (orders) and sale.order.line      *)
(* records (lines).  What a handler does to the database is written as     *)
(* operators on the tables.  SpecCart and SpecLines run one request at a   *)
(* time: each handler is one action.  In SpecFind and SpecConfirm a        *)
(* request is a process p that walks through the statements of its         *)
(* handler, every statement that reads or writes the database being one    *)
(* step, so that two requests interleave where two workers of the server   *)
(* interleave.                                                             *)
(***************************************************************************)
EXTENDS Integers, Sequences, FiniteSets, TLC

(***************************************************************************)
(* Bounds of the model.                                                    *)
(***************************************************************************)
MaxOrders == 2
MaxLines == 2
MaxQty == 2

(***************************************************************************)
(* Inputs.                                                                 *)
(***************************************************************************)
\* res.partner of the anonymous website visitor, env.ref('base.public_partner')
PublicPartner == 1
\* res.users that a token can name; user u owns partner PartnerOf(u)
Users == {1}
PartnerOf(u) == u + 1
Partners == {PublicPartner} \cup {PartnerOf(u) : u \in Users}
\* website sessions: 0 is the anonymous visitor, u > 0 is user u logged in
Sessions == {0} \cup Users
SessionPartner(s) == IF s = 0 THEN PublicPartner ELSE PartnerOf(s)
\* product.product records that exist, are active and can be sold
Products == {1, 2}
\* product ids a request can carry; 9 names no product
ProductIds == Products \cup {9}
\* delivery.carrier records that exist
Carriers == {1}
\* carrier ids a request can carry; 0 is "no carrier_id", 9 names no carrier
CarrierIds == {0, 9} \cup Carriers
\* quantities a request can carry
Qtys == {-1, 0, 1}
\* concurrent requests
Procs == {1, 2}

\* delivery.carrier.fixed_price
fixed_price(carrier) == 1

VARIABLES
    orders,         \* sale.order table: the record of id o is orders[o]
    lines,          \* sale.order.line table: the record of id l is lines[l]
    session_order,  \* the cart each website session points to (0: none)
    hist,           \* per order: the add_line calls applied to it (SpecLines)
    pc,             \* per request: the statement it is at
    req,            \* per request: the operation and its arguments
    loc,            \* per request: its local variables
    resp,           \* per request: the last response it returned
    params,         \* ir.config_parameter: auth_token.secret_key, .expires_in
    now,            \* the clock of the server, in seconds
    res_users,      \* res.users table: what there is of each user
    issued,         \* the last success response of auth_login
    auth,           \* the last outcome of auth_login or of _validate_jwt
    res_partner,    \* res.partner table: the record of id a is res_partner[a]
    order_address,  \* per order: partner_invoice_id and partner_shipping_id
    product_price,  \* product.product: the list price of each product
    rate_limit_store, \* auth_signup._rate_limit_store: per IP, its timestamps
    admitted        \* per IP: the timestamps of the requests let through

vars ==
    <<orders, lines, session_order, hist, pc, req, loc, resp,
      params, now, res_users, issued, auth,
      res_partner, order_address, product_price, rate_limit_store, admitted>>
db == <<orders, lines, session_order>>
\* the state of the cart store and of the requests to it
cart_vars == <<orders, lines, session_order, hist, pc, req, loc, resp>>
\* the state of the token subsystem
token_vars == <<params, now, res_users, issued, auth>>
\* the partners, the addresses of the orders, the catalog and the rate limiter
shop_vars ==
    <<res_partner, order_address, product_price, rate_limit_store, admitted>>
rate_vars == <<rate_limit_store, admitted>>

\* product.list_price / product.lst_price
list_price(product) == product_price[product]

OrderIds == 1..Len(orders)
LineIds == 1..Len(lines)

(***************************************************************************)
(* Records.                                                                *)
(***************************************************************************)
\* a sale.order as create() leaves it: draft, no carrier, no delivery line
NewOrder(partner, website) ==
    [partner_id |-> partner, website_id |-> website, state |-> "draft",
     carrier_id |-> 0, amount_delivery |-> 0]

\* a sale.order.line as create() leaves it
NewLine(order, product, quantity, price) ==
    [order_id |-> order, product_id |-> product, product_uom_qty |-> quantity,
     price_unit |-> price, exists |-> TRUE]

\* the add_line calls applied to an order since it was created: whether
\* there was one per product, the sum of their quantities, and whether no
\* set_line_qty or remove_line has acted on the order
NewHist ==
    [added |-> [p \in Products |-> FALSE], sum |-> [p \in Products |-> 0],
     only_adds |-> TRUE]

NoView == [order |-> NewOrder(0, 0), lines |-> [l \in {} |-> NewLine(0, 0, 0, 0)]]
NoReq ==
    [op |-> "none", who |-> 0, product_id |-> 0, quantity |-> 0,
     carrier_id |-> 0]
\* now, attempts: the locals of _is_rate_limited; aliased: attempts is the
\* list object that _rate_limit_store holds
NoLoc ==
    [cart |-> 0, line |-> 0, seen |-> 0, before |-> NoView,
     now |-> 0, attempts |-> <<>>, aliased |-> FALSE]
\* the amounts a response names
NoTotals == [subtotal |-> 0, taxes |-> 0, delivery |-> 0, total |-> 0]
\* fields: the fields an error names; warning: whether the response has a
\* warning field; carrier_id: the carrier the response names
NoResp ==
    [op |-> "none", status |-> "none", message |-> "", order |-> 0,
     order_name |-> 0, again |-> FALSE, redone |-> FALSE, changed |-> FALSE,
     fields |-> {}, warning |-> FALSE, carrier_id |-> 0, totals |-> NoTotals,
     product_id |-> 0]

Response(op, status, message) ==
    [NoResp EXCEPT !.op = op, !.status = status, !.message = message]

(***************************************************************************)
(* Reading the database.                                                   *)
(***************************************************************************)
LineExists(l) == l \in LineIds /\ lines[l].exists

\* the lines of order o in the line table ls
lines_of(ls, o) ==
    {l \in 1..Len(ls) : ls[l].exists /\ ls[l].order_id = o}

\* order.order_line
order_line(o) == lines_of(lines, o)

\* order_line.filtered(lambda l: l.product_id.id == product_id)
filtered(ls, o, product) == {l \in lines_of(ls, o) : ls[l].product_id = product}

Min(S) == CHOOSE x \in S : \A y \in S : x <= y

RECURSIVE SumSubtotal(_, _)
\* sum(order_line.mapped('price_subtotal')) over the lines S of table ls
SumSubtotal(ls, S) ==
    IF S = {} THEN 0
    ELSE LET l == Min(S)
         IN  ls[l].price_unit * ls[l].product_uom_qty
             + SumSubtotal(ls, S \ {l})

\* the tax engine is a collaborator; the model's products carry no tax
tax_for(untaxed) == 0

\* the order's computed amounts, from order table os and line table ls
compute_amounts(os, ls, o) ==
    LET untaxed == SumSubtotal(ls, lines_of(ls, o))
    IN  [amount_untaxed |-> untaxed,
         amount_tax |-> tax_for(untaxed),
         amount_delivery |-> os[o].amount_delivery,
         amount_total |-> untaxed + tax_for(untaxed) + os[o].amount_delivery]

amount_total(o) == compute_amounts(orders, lines, o).amount_total

\* the amounts of order o as a response names them
totals_of(os, ls, o) ==
    LET amounts == compute_amounts(os, ls, o)
    IN  [subtotal |-> amounts.amount_untaxed, taxes |-> amounts.amount_tax,
         delivery |-> amounts.amount_delivery, total |-> amounts.amount_total]

\* the amounts CartAPI.add_to_cart returns: 'total' and the price_subtotal
\* of each item
cart_totals(os, ls, o) ==
    [NoTotals EXCEPT !.subtotal = totals_of(os, ls, o).subtotal,
                     !.total = totals_of(os, ls, o).total]

\* SaleOrder._get_totals(): subtotal, taxes and total
get_totals(os, ls, o) == [totals_of(os, ls, o) EXCEPT !.delivery = 0]

\* order.name: the reference the order got from its sequence at create()
order_name(o) == o

\* sale.order.search([('partner_id', '=', partner), ('state', '=', 'draft')])
search_draft(os, partner) ==
    {o \in 1..Len(os) : os[o].partner_id = partner /\ os[o].state = "draft"}

\* the same search with ('website_id', '=', website) added
search_draft_website(os, partner, website) ==
    {o \in search_draft(os, partner) : os[o].website_id = website}

\* what search(..., limit=1) returns on the matches S: one of them, 0 for none
limit1(S) == IF S = {} THEN {0} ELSE S

\* everything a client can see of a cart: its fields and its lines
View(os, ls, o) == [order |-> os[o], lines |-> [l \in lines_of(ls, o) |-> ls[l]]]
CartView(o) == View(orders, lines, o)

\* the signature segment of a token.  kind "mac": the base64url text of the
\* HMAC-SHA256 under the key of header + "." + payload; kind "text": another
\* text of base64url digits; kind "nonascii": a text with a character
\* outside ASCII
NoSignature == [kind |-> "text", key |-> 0, header |-> <<>>, payload |-> <<>>]

\* a token: the number of periods in it and its three segments.  kind
\* "none": no token; kind "empty": the empty string
NoToken ==
    [kind |-> "none", dots |-> 0, header |-> <<>>, payload |-> <<>>,
     signature |-> NoSignature]

\* the payload of a token
NoPayload == [user_id |-> 0, exp |-> 0, iat |-> 0]

NoIssued ==
    [user_id |-> 0, expires_in |-> 0, payload |-> NoPayload, token |-> NoToken]

\* an outcome: the operation, the status code and the message it ended
\* with, the user it resolved to, the token it read or wrote, and the time
NoAuth ==
    [op |-> "none", code |-> 0, message |-> "", user_id |-> 0,
     token |-> NoToken, at |-> 0]

\* a parameter that was never set: get_param returns its default
Unset == [kind |-> "unset", value |-> 0]

(***************************************************************************)
(* Initial state: an empty database, no request in flight, no parameter of *)
(* auth_token set, every user active, no token issued.                     *)
(***************************************************************************)
\* the address fields of a res.partner: 0 is "not set"
NoAddress == [name |-> 0, street |-> 0, city |-> 0, country_id |-> 0]
\* the invoice and the delivery address an order names: 0 is "not set"
NoOrderAddress == [partner_invoice_id |-> 0, partner_shipping_id |-> 0]
\* the partner of a customer who is not the one making the requests
OtherPartner == 3
\* IP addresses that call the registration endpoint
Ips == {1}

Init ==
    /\ orders = <<>>
    /\ lines = <<>>
    /\ session_order = [s \in Sessions |-> 0]
    /\ hist = [o \in 1..MaxOrders |-> NewHist]
    /\ pc = [p \in Procs |-> "idle"]
    /\ req = [p \in Procs |-> NoReq]
    /\ loc = [p \in Procs |-> NoLoc]
    /\ resp = [p \in Procs |-> NoResp]
    /\ params = [secret_key |-> 0, expires_in |-> Unset]
    /\ now = 0
    /\ res_users = [u \in Users |-> "active"]
    /\ issued = NoIssued
    /\ auth = NoAuth
    /\ res_partner = [a \in Partners \cup {OtherPartner} |-> NoAddress]
    /\ order_address = [o \in 1..MaxOrders |-> NoOrderAddress]
    /\ product_price = [product \in Products |-> product]
    /\ rate_limit_store = [ip \in Ips |-> <<>>]
    /\ admitted = [ip \in Ips |-> <<>>]

\* request p, handled in one piece, returns response r
Reply(p, r) ==
    /\ pc[p] = "idle"
    /\ resp' = [resp EXCEPT ![p] = r]
    /\ UNCHANGED <<pc, req, loc, token_vars, shop_vars>>

\* request p, handled statement by statement, returns response r
Return(p, r) ==
    /\ pc' = [pc EXCEPT ![p] = "idle"]
    /\ req' = [req EXCEPT ![p] = NoReq]
    /\ loc' = [loc EXCEPT ![p] = NoLoc]
    /\ resp' = [resp EXCEPT ![p] = r]
    /\ UNCHANGED <<token_vars, shop_vars>>

\* request p goes on to statement at
Goto(p, at, l) ==
    /\ pc' = [pc EXCEPT ![p] = at]
    /\ loc' = [loc EXCEPT ![p] = l]
    /\ UNCHANGED <<req, resp, token_vars, shop_vars>>

\* request p starts with arguments r
Begin(p, at, r, l) ==
    /\ pc[p] = "idle"
    /\ pc' = [pc EXCEPT ![p] = at]
    /\ req' = [req EXCEPT ![p] = r]
    /\ loc' = [loc EXCEPT ![p] = l]
    /\ resp' = [resp EXCEPT ![p] = NoResp]
    /\ UNCHANGED <<token_vars, shop_vars>>

\* hist after add_line(o, product, quantity) succeeded
NoteAdd(h, o, product, quantity) ==
    IF h[o].only_adds
    THEN [h EXCEPT ![o].added[product] = TRUE,
                   ![o].sum[product] = @ + quantity]
    ELSE h

\* hist after a set_line_qty or a remove_line acted on order o
NoteOther(h, o) == [h EXCEPT ![o] = [NewHist EXCEPT !.only_adds = FALSE]]

\* the bounds of the model on the tables
WithinBounds(os, ls) ==
    /\ Len(os) <= MaxOrders
    /\ Len(ls) <= MaxLines
    /\ \A l \in 1..Len(ls) : ls[l].product_uom_qty \in -1..MaxQty

(***************************************************************************)
(* POST /api/cart/add: CartAPI.add_to_cart for the user of a valid token.  *)
(***************************************************************************)
\* the input checks, in the order of the code; "" when they pass
add_to_cart_error(product, quantity) ==
    IF quantity <= 0 THEN "Quantity must be positive"
    ELSE IF product \notin Products THEN "Invalid or unsaleable product"
    ELSE ""

\* sale.order.create({'partner_id': ..., 'user_id': ..., 'state': 'draft'})
create_order(os, partner) == Append(os, NewOrder(partner, 0))

\* order_line[0] of the lines of order o for the product, 0 when there is none
first_line(ls, o, product) ==
    IF filtered(ls, o, product) = {} THEN 0 ELSE Min(filtered(ls, o, product))

\* order_line[0].product_uom_qty += quantity, on the quantity that was read
add_to_cart_merge(seen, quantity) == seen + quantity

\* the line table after "Add or update product in cart"
\* a merge that would also take the price of the catalog as it is now
add_to_cart_lines_repriced(ls, o, line, seen, product, quantity) ==
    IF line # 0
    THEN [ls EXCEPT ![line].product_uom_qty = add_to_cart_merge(seen, quantity),
                    ![line].price_unit = list_price(product)]
    ELSE Append(ls, NewLine(o, product, quantity, list_price(product)))

add_to_cart_lines(ls, o, line, seen, product, quantity) ==
    IF line # 0
    THEN [ls EXCEPT ![line].product_uom_qty = add_to_cart_merge(seen, quantity)]
    ELSE Append(ls, NewLine(o, product, quantity, list_price(product)))

add_to_cart_success(os, ls, o, product) ==
    [Response("add_to_cart", "success", "")
        EXCEPT !.order = o, !.product_id = product,
               !.totals = cart_totals(os, ls, o)]

\* the whole handler, for user u; found is what the search returned
add_to_cart(p, u, product, quantity, found) ==
    IF add_to_cart_error(product, quantity) # ""
    THEN /\ found = 0
         /\ Reply(p, Response("add_to_cart", "error",
                              add_to_cart_error(product, quantity)))
         /\ UNCHANGED db
    ELSE /\ found \in limit1(search_draft(orders, PartnerOf(u)))
         /\ LET os1 == IF found = 0 THEN create_order(orders, PartnerOf(u))
                       ELSE orders
                cart == IF found = 0 THEN Len(os1) ELSE found
                line == first_line(lines, cart, product)
                seen == IF line = 0 THEN 0 ELSE lines[line].product_uom_qty
                ls1 == add_to_cart_lines(lines, cart, line, seen, product,
                                         quantity)
            IN  /\ WithinBounds(os1, ls1)
                /\ orders' = os1
                /\ lines' = ls1
                /\ UNCHANGED session_order
                /\ Reply(p, add_to_cart_success(os1, ls1, cart, product))

\* the handler statement by statement: the input checks and the search
add_to_cart_search(p) ==
    \E u \in Users, product \in ProductIds, quantity \in Qtys :
        /\ pc[p] = "idle"
        /\ UNCHANGED <<db, hist>>
        /\ IF add_to_cart_error(product, quantity) # ""
           THEN Return(p, Response("add_to_cart", "error",
                                   add_to_cart_error(product, quantity)))
           ELSE \E found \in limit1(search_draft(orders, PartnerOf(u))) :
                    Begin(p, IF found = 0 THEN "atc_create" ELSE "atc_filter",
                          [NoReq EXCEPT !.op = "add_to_cart", !.who = u,
                                        !.product_id = product,
                                        !.quantity = quantity],
                          [NoLoc EXCEPT !.cart = found])

\* "if not cart:" was taken: create the cart
add_to_cart_create(p) ==
    /\ pc[p] = "atc_create"
    /\ Len(orders) < MaxOrders
    /\ orders' = create_order(orders, PartnerOf(req[p].who))
    /\ Goto(p, "atc_filter", [loc[p] EXCEPT !.cart = Len(orders')])
    /\ UNCHANGED <<lines, session_order, hist>>

\* cart.order_line.filtered(...), and the read of the line's quantity
add_to_cart_filter(p) ==
    /\ pc[p] = "atc_filter"
    /\ LET line == first_line(lines, loc[p].cart, req[p].product_id)
       IN  Goto(p, "atc_write",
                [loc[p] EXCEPT !.line = line,
                               !.seen = IF line = 0 THEN 0
                                        ELSE lines[line].product_uom_qty])
    /\ UNCHANGED <<db, hist>>

\* the row of the line was written by another request after this one read
\* it: the database refuses the write of this request (a serialization
\* failure under REPEATABLE READ)
concurrent_update(ls, line, seen) ==
    line # 0 /\ (~ls[line].exists \/ ls[line].product_uom_qty # seen)

\* the write of the line, and the response; a write that the database
\* refuses ends the transaction, and the request is run again
add_to_cart_write(p) ==
    /\ pc[p] = "atc_write"
    /\ IF concurrent_update(lines, loc[p].line, loc[p].seen)
       THEN /\ Goto(p, "atc_retry", NoLoc)
            /\ UNCHANGED db
       ELSE /\ lines' = add_to_cart_lines(lines, loc[p].cart, loc[p].line,
                                          loc[p].seen, req[p].product_id,
                                          req[p].quantity)
            /\ WithinBounds(orders, lines')
            /\ Return(p, add_to_cart_success(orders, lines', loc[p].cart,
                                             req[p].product_id))
            /\ UNCHANGED <<orders, session_order>>

\* the request is run again from its search, with the arguments it had
add_to_cart_retry(p) ==
    /\ pc[p] = "atc_retry"
    /\ \E found \in limit1(search_draft(orders, PartnerOf(req[p].who))) :
           Goto(p, IF found = 0 THEN "atc_create" ELSE "atc_filter",
                [NoLoc EXCEPT !.cart = found])
    /\ UNCHANGED <<db, hist>>

(***************************************************************************)
(* SaleOrder.create_cart(partner_id, website_id=1), called over RPC.       *)
(***************************************************************************)
\* the website of this deployment
Website == 1

\* self.create({'partner_id': partner_id, 'website_id': website_id})
create_cart_order(os, partner) == Append(os, NewOrder(partner, Website))

create_cart_found(os, partner) ==
    limit1(search_draft_website(os, partner, Website))

create_cart_success(o) ==
    [Response("create_cart", "success", "") EXCEPT !.order = o]

\* "if not partner_id:" names request, which the module does not import
create_cart_guest == Response("create_cart", "error", "NameError")

\* the whole method; found is what the search returned
create_cart(p, partner, found) ==
    IF partner = 0
    THEN /\ found = 0
         /\ Reply(p, create_cart_guest)
         /\ UNCHANGED db
    ELSE /\ found \in create_cart_found(orders, partner)
         /\ LET os1 == IF found = 0 THEN create_cart_order(orders, partner)
                       ELSE orders
            IN  /\ WithinBounds(os1, lines)
                /\ orders' = os1
                /\ UNCHANGED <<lines, session_order>>
                /\ Reply(p, create_cart_success(IF found = 0 THEN Len(os1)
                                                ELSE found))

\* the method statement by statement: the search
create_cart_search(p) ==
    \E partner \in Partners \cup {0} :
        /\ pc[p] = "idle"
        /\ UNCHANGED <<db, hist>>
        /\ IF partner = 0
           THEN Return(p, create_cart_guest)
           ELSE \E found \in create_cart_found(orders, partner) :
                    IF found # 0
                    THEN Return(p, create_cart_success(found))
                    ELSE Begin(p, "cc_create",
                               [NoReq EXCEPT !.op = "create_cart",
                                             !.who = partner],
                               NoLoc)

\* "if not order:" was taken: create the cart and return it
create_cart_create(p) ==
    /\ pc[p] = "cc_create"
    /\ Len(orders) < MaxOrders
    /\ orders' = create_cart_order(orders, req[p].who)
    /\ Return(p, create_cart_success(Len(orders')))
    /\ UNCHANGED <<lines, session_order, hist>>

(***************************************************************************)
(* SaleOrder.add_product_to_cart and SaleOrder.update_cart_line, called    *)
(* over RPC on the order o.                                                *)
(***************************************************************************)
\* a write of the quantity of the call in place of the sum
add_product_replace(seen, quantity) == quantity

\* line.product_uom_qty + quantity
add_product_merge(seen, quantity) == seen + quantity

\* the checks of add_product_to_cart; "" when they pass.  line.product_uom_qty
\* of a recordset of several lines raises
add_product_error(ls, o, product) ==
    IF product \notin Products THEN "Product not found"
    ELSE IF Cardinality(filtered(ls, o, product)) > 1 THEN "Expected singleton"
    ELSE ""

\* the line table after add_product_to_cart(product, quantity) on order o
add_product_lines(ls, o, product, quantity) ==
    LET line == first_line(ls, o, product)
    IN  IF line # 0
        THEN [ls EXCEPT ![line].product_uom_qty =
                            add_product_merge(ls[line].product_uom_qty, quantity)]
        ELSE Append(ls, NewLine(o, product, quantity, list_price(product)))

add_product_to_cart(p, o, product, quantity) ==
    /\ o \in OrderIds
    /\ IF add_product_error(lines, o, product) # ""
       THEN /\ Reply(p, Response("add_product_to_cart", "error",
                                 add_product_error(lines, o, product)))
            /\ UNCHANGED db
       ELSE /\ lines' = add_product_lines(lines, o, product, quantity)
            /\ WithinBounds(orders, lines')
            /\ UNCHANGED <<orders, session_order>>
            /\ Reply(p, [Response("add_product_to_cart", "success", "")
                            EXCEPT !.order = o,
                                   !.totals = get_totals(orders, lines', o)])

\* line.unlink(): the record is gone, its id is not used again
unlink(ls, l) == [ls EXCEPT ![l] = [NewLine(0, 0, 0, 0) EXCEPT !.exists = FALSE]]

\* line.product_uom_qty = quantity
set_qty(ls, l, quantity) == [ls EXCEPT ![l].product_uom_qty = quantity]

\* the arguments of update_cart_line: quantity is None when has_quantity is
\* FALSE
NoQuantity == [has_quantity |-> FALSE, quantity |-> 0]
Quantities ==
    {NoQuantity} \cup {[has_quantity |-> TRUE, quantity |-> q] : q \in Qtys}

\* the line table after update_cart_line(l, quantity, remove)
update_cart_lines(ls, l, quantity, remove) ==
    IF remove THEN unlink(ls, l)
    ELSE IF quantity.has_quantity THEN set_qty(ls, l, quantity.quantity)
    ELSE ls

\* self.order_line.browse(line_id) is the line of that id, of any order
update_cart_line(p, o, l, quantity, remove) ==
    /\ o \in OrderIds
    /\ IF ~LineExists(l)
       THEN /\ Reply(p, Response("update_cart_line", "error",
                                 "Cart line not found"))
            /\ UNCHANGED db
       ELSE /\ lines' = update_cart_lines(lines, l, quantity, remove)
            /\ UNCHANGED <<orders, session_order>>
            /\ Reply(p, [Response("update_cart_line", "success", "")
                            EXCEPT !.order = o,
                                   !.totals = get_totals(orders, lines', o)])

(***************************************************************************)
(* /api/shop/checkout: ApiShopCheckout, for the website session s.         *)
(***************************************************************************)
\* website.sale_get_order(force_create=True) of _get_checkout_data: the
\* session gets a cart when it has none
get_checkout_data(p, s) ==
    /\ IF session_order[s] = 0
       THEN /\ orders' = Append(orders, NewOrder(SessionPartner(s), Website))
            /\ WithinBounds(orders', lines)
            /\ session_order' = [session_order EXCEPT ![s] = Len(orders')]
       ELSE UNCHANGED <<orders, session_order>>
    /\ UNCHANGED lines
    /\ Reply(p, [Response("get_checkout_data", "success", "")
                    EXCEPT !.order = session_order'[s]])

\* order.set_delivery_line(carrier, price)
set_delivery_line(os, o, carrier, price) ==
    [os EXCEPT ![o].carrier_id = carrier, ![o].amount_delivery = price]

\* a confirm that toggles the state: it would reopen a confirmed order
action_confirm_toggle(os, o) ==
    [os EXCEPT ![o].state = IF @ = "sale" THEN "draft" ELSE "sale"]

\* order.action_confirm()
action_confirm(os, o) == [os EXCEPT ![o].state = "sale"]

\* a state check that lets a confirmed order through
ConfirmableOrSale(state) == state \in {"draft", "sent", "sale"}

\* order.state in ('draft', 'sent')
Confirmable(state) == state \in {"draft", "sent"}

\* "if not order or order.state not in ('draft', 'sent')"
no_valid_cart(os, o) == o = 0 \/ ~Confirmable(os[o].state)

\* "Set carrier if provided"
confirm_carrier(os, o, carrier) ==
    IF carrier # 0 /\ carrier \in Carriers
    THEN set_delivery_line(os, o, carrier, fixed_price(carrier))
    ELSE os

\* "if not order.partner_id or order.partner_id == base.public_partner"
no_billing(os, o) ==
    os[o].partner_id = 0 \/ os[o].partner_id = PublicPartner

\* the responses of confirm_checkout.  again: the cart was confirmed before
\* the call; redone: action_confirm ran on a cart that was confirmed already;
\* changed: the cart is not as it was when the call found it
NoValidCart(os, o) ==
    [Response("confirm_checkout", "error", "No valid cart")
        EXCEPT !.order = o, !.again = o # 0 /\ os[o].state = "sale"]

ConfirmFailed(o, message, before, os, ls) ==
    [Response("confirm_checkout", "error", message)
        EXCEPT !.order = o, !.again = before.order.state = "sale",
               !.changed = View(os, ls, o) # before]

ConfirmDone(o, before, was) ==
    [Response("confirm_checkout", "success", "")
        EXCEPT !.order = o, !.order_name = order_name(o),
               !.again = before.order.state = "sale",
               !.redone = was = "sale"]

\* POST /api/shop/checkout/confirm, the whole handler; raised: action_confirm
\* raises, which the handler catches
confirm_checkout(p, s, carrier, raised) ==
    LET o == session_order[s]
    IN  IF no_valid_cart(orders, o)
        THEN /\ ~raised
             /\ Reply(p, NoValidCart(orders, o))
             /\ UNCHANGED db
        ELSE LET before == CartView(o)
                 os1 == confirm_carrier(orders, o, carrier)
             IN  /\ UNCHANGED <<lines, session_order>>
                 /\ IF no_billing(os1, o)
                    THEN /\ ~raised
                         /\ orders' = os1
                         /\ Reply(p, ConfirmFailed(o,
                                "Please provide billing information",
                                before, os1, lines))
                    ELSE IF raised
                    THEN /\ orders' = os1
                         /\ Reply(p, ConfirmFailed(o, "UserError", before,
                                                   os1, lines))
                    ELSE /\ orders' = action_confirm(os1, o)
                         /\ Reply(p, ConfirmDone(o, before, os1[o].state))

\* the handler statement by statement: sale_get_order and the state check
confirm_checkout_check(p) ==
    \E s \in Sessions, carrier \in CarrierIds :
        /\ pc[p] = "idle"
        /\ UNCHANGED <<db, hist>>
        /\ IF no_valid_cart(orders, session_order[s])
           THEN Return(p, NoValidCart(orders, session_order[s]))
           ELSE Begin(p, "cf_carrier",
                      [NoReq EXCEPT !.op = "confirm_checkout", !.who = s,
                                    !.carrier_id = carrier],
                      [NoLoc EXCEPT !.cart = session_order[s],
                                    !.before = CartView(session_order[s])])

\* "Set carrier if provided" and "Validate order has a valid partner"
confirm_checkout_carrier(p) ==
    /\ pc[p] = "cf_carrier"
    /\ orders' = confirm_carrier(orders, loc[p].cart, req[p].carrier_id)
    /\ UNCHANGED <<lines, session_order, hist>>
    /\ IF no_billing(orders', loc[p].cart)
       THEN Return(p, ConfirmFailed(loc[p].cart,
                        "Please provide billing information",
                        loc[p].before, orders', lines))
       ELSE Goto(p, "cf_confirm", loc[p])

\* "Confirm the sale order" and the response
confirm_checkout_confirm(p) ==
    \E raised \in BOOLEAN :
        /\ pc[p] = "cf_confirm"
        /\ UNCHANGED <<lines, session_order, hist>>
        /\ IF raised
           THEN /\ UNCHANGED orders
                /\ Return(p, ConfirmFailed(loc[p].cart, "UserError",
                                           loc[p].before, orders, lines))
           ELSE /\ orders' = action_confirm(orders, loc[p].cart)
                /\ Return(p, ConfirmDone(loc[p].cart, loc[p].before,
                                         orders[loc[p].cart].state))

\* SaleOrder.confirm_checkout(), called over RPC on the order o; raised:
\* action_confirm raises, and the call fails with nothing written
SaleOrder_confirm_checkout(p, o, raised) ==
    /\ o \in OrderIds
    /\ UNCHANGED <<lines, session_order>>
    /\ IF raised
       THEN /\ UNCHANGED orders
            /\ Reply(p, [Response("SaleOrder.confirm_checkout", "error",
                                  "UserError") EXCEPT !.order = o])
       ELSE /\ orders' = action_confirm(orders, o)
            /\ Reply(p, [Response("SaleOrder.confirm_checkout", "success", "")
                            EXCEPT !.order = o,
                                   !.redone = orders[o].state = "sale"])

(***************************************************************************)
(* POST /api/website/cart/add: api_add_to_cart, for the website session s. *)
(***************************************************************************)
\* website.sale_get_order(force_create=True): the order table and the cart
\* of the session afterwards
force_create(os, so, s) ==
    IF so[s] = 0
    THEN [orders |-> Append(os, NewOrder(SessionPartner(s), Website)),
          cart |-> Len(os) + 1]
    ELSE [orders |-> os, cart |-> so[s]]

\* float(quantity or 1)
quantity_or_1(quantity) == IF quantity = 0 THEN 1 ELSE quantity

\* the checks of api_add_to_cart, in the order of the code; "" when they pass
api_add_to_cart_error(product, quantity) ==
    IF product \notin Products THEN "Product not available on this website"
    ELSE IF quantity_or_1(quantity) <= 0 THEN "Quantity must be positive"
    ELSE ""

\* sale_order._cart_update(product_id, add_qty, set_qty=0) on a draft order:
\* the quantity is added to the line of the product, a line that comes to
\* zero or less is unlinked, a product without a line gets one
cart_update(ls, o, product, add_qty) ==
    LET line == first_line(ls, o, product)
    IN  IF line = 0
        THEN Append(ls, NewLine(o, product, add_qty, list_price(product)))
        ELSE IF ls[line].product_uom_qty + add_qty <= 0
        THEN [ls EXCEPT ![line] = [NewLine(0, 0, 0, 0) EXCEPT !.exists = FALSE]]
        ELSE [ls EXCEPT ![line].product_uom_qty = @ + add_qty]

\* the whole handler; product 0 is a request that names no product
api_add_to_cart(p, s, product, quantity) ==
    IF product = 0
    THEN /\ Reply(p, Response("api_add_to_cart", "error",
                              "product_id or product_template_id is required"))
         /\ UNCHANGED db
    ELSE LET got == force_create(orders, session_order, s)
             o == got.cart
         IN  /\ orders' = got.orders
             /\ IF api_add_to_cart_error(product, quantity) # ""
                THEN /\ UNCHANGED lines
                     /\ session_order' = [session_order EXCEPT ![s] = o]
                     /\ WithinBounds(orders', lines)
                     /\ Reply(p, [Response("api_add_to_cart", "error",
                                     api_add_to_cart_error(product, quantity))
                                     EXCEPT !.order = o])
                ELSE IF got.orders[o].state # "draft"
                THEN \* _cart_update raises and forgets the cart of the session
                     /\ UNCHANGED lines
                     /\ session_order' = [session_order EXCEPT ![s] = 0]
                     /\ Reply(p, [Response("api_add_to_cart", "error",
                                     "Failed to add product")
                                     EXCEPT !.order = o])
                ELSE /\ lines' = cart_update(lines, o, product,
                                             quantity_or_1(quantity))
                     /\ session_order' = [session_order EXCEPT ![s] = o]
                     /\ WithinBounds(orders', lines')
                     /\ Reply(p, [Response("api_add_to_cart", "success", "")
                                     EXCEPT !.order = o,
                                            !.totals =
                                                cart_totals(orders', lines', o)])

(***************************************************************************)
(* SpecCart: the carts and the checkout, one request at a time.  The carts *)
(* are filled one unit at a time; lines go away by remove only.            *)
(***************************************************************************)
NextCart ==
    \/ \E u \in Users, product \in Products, found \in 0..MaxOrders :
           add_to_cart(1, u, product, 1, found) /\ UNCHANGED hist
    \/ \E partner \in Partners \cup {0}, found \in 0..MaxOrders :
           create_cart(1, partner, found) /\ UNCHANGED hist
    \/ \E o \in OrderIds, product \in Products :
           add_product_to_cart(1, o, product, 1) /\ UNCHANGED hist
    \/ \E o \in OrderIds, l \in LineIds :
           update_cart_line(1, o, l, NoQuantity, TRUE) /\ UNCHANGED hist
    \/ \E s \in Sessions : get_checkout_data(1, s) /\ UNCHANGED hist
    \/ \E s \in Sessions, carrier \in CarrierIds, raised \in BOOLEAN :
           confirm_checkout(1, s, carrier, raised) /\ UNCHANGED hist
    \/ \E o \in OrderIds, raised \in BOOLEAN :
           SaleOrder_confirm_checkout(1, o, raised) /\ UNCHANGED hist

SpecCart == Init /\ [][NextCart]_vars

(***************************************************************************)
(* SpecLines: the lines of the carts, one request at a time, with the      *)
(* add_line calls of every order on record in hist.                        *)
(***************************************************************************)
NextLines ==
    \/ \E u \in Users, product \in ProductIds, quantity \in Qtys,
          found \in 0..MaxOrders :
           /\ add_to_cart(1, u, product, quantity, found)
           /\ hist' = IF resp'[1].status = "success"
                      THEN NoteAdd(hist, resp'[1].order, product, quantity)
                      ELSE hist
    \/ \E o \in OrderIds, product \in ProductIds, quantity \in Qtys :
           /\ add_product_to_cart(1, o, product, quantity)
           /\ hist' = IF resp'[1].status = "success"
                      THEN NoteAdd(hist, o, product, quantity)
                      ELSE hist
    \/ \E o \in OrderIds, l \in 1..MaxLines, quantity \in Quantities,
          remove \in BOOLEAN :
           /\ update_cart_line(1, o, l, quantity, remove)
           /\ hist' = IF lines' # lines
                      THEN NoteOther(hist, lines[l].order_id)
                      ELSE hist
    \/ \E o \in OrderIds, raised \in BOOLEAN :
           SaleOrder_confirm_checkout(1, o, raised) /\ UNCHANGED hist

SpecLines == Init /\ [][NextLines]_vars

(***************************************************************************)
(* SpecFind: find-or-create requests running concurrently.                 *)
(***************************************************************************)
NextFind ==
    \E p \in Procs :
        \/ add_to_cart_search(p)
        \/ add_to_cart_create(p)
        \/ add_to_cart_filter(p)
        \/ add_to_cart_write(p) /\ UNCHANGED hist
        \/ add_to_cart_retry(p)
        \/ create_cart_search(p)
        \/ create_cart_create(p)

SpecFind == Init /\ [][NextFind]_vars

(***************************************************************************)
(* SpecConfirm: confirm requests running concurrently on the carts of the  *)
(* website sessions.                                                       *)
(***************************************************************************)
NextConfirm ==
    \E p \in Procs :
        \/ \E s \in Sessions : get_checkout_data(p, s) /\ UNCHANGED hist
        \/ confirm_checkout_check(p)
        \/ confirm_checkout_carrier(p)
        \/ confirm_checkout_confirm(p)

SpecConfirm == Init /\ [][NextConfirm]_vars

(***************************************************************************)
(* SpecAdd: the three ways to add a product to a cart, one request at a    *)
(* time.                                                                   *)
(***************************************************************************)
NextAdd ==
    \/ \E u \in Users, product \in ProductIds, quantity \in Qtys,
          found \in 0..MaxOrders :
           add_to_cart(1, u, product, quantity, found) /\ UNCHANGED hist
    \/ \E o \in OrderIds, product \in ProductIds, quantity \in Qtys :
           add_product_to_cart(1, o, product, quantity) /\ UNCHANGED hist
    \/ \E s \in Sessions, product \in ProductIds \cup {0}, quantity \in Qtys :
           api_add_to_cart(1, s, product, quantity) /\ UNCHANGED hist

SpecAdd == Init /\ [][NextAdd]_vars

(***************************************************************************)
(* Properties of the cart store and of the checkout.                       *)
(***************************************************************************)
\* the last response of request p is that of a find-or-create on a cart
FoundCart(p) ==
    /\ resp[p].op \in {"add_to_cart", "create_cart"}
    /\ resp[p].status = "success"

\* C1: in every reachable state of concurrent find-or-create requests every
\* partner has at most one draft cart, and two requests that were answered
\* with draft carts of one partner were answered with the same cart.
C1_OneDraftCart ==
    /\ \A partner \in Partners :
           Cardinality(search_draft(orders, partner)) <= 1
    /\ \A p, q \in Procs :
           (/\ FoundCart(p) /\ FoundCart(q)
            /\ orders[resp[p].order].partner_id
                   = orders[resp[q].order].partner_id
            /\ orders[resp[p].order].state = "draft"
            /\ orders[resp[q].order].state = "draft")
           => resp[p].order = resp[q].order

\* the last response of request p is that of a confirm on a cart that was
\* confirmed already when the request read it
Reconfirmed(p) == resp[p].op = "confirm_checkout" /\ resp[p].again

C3_ConfirmOnce ==
    /\ \A p, q \in Procs :
           (/\ p # q
            /\ pc[p] \in {"cf_carrier", "cf_confirm"}
            /\ pc[q] \in {"cf_carrier", "cf_confirm"})
           => loc[p].cart # loc[q].cart
    /\ \A p \in Procs :
           (resp[p].op = "confirm_checkout" /\ resp[p].status = "success")
           => ~resp[p].redone

\* C4: a confirm that fails on a precondition leaves the cart draft and
\* every field of it as it was, whether or not the request named a carrier.
C4_FailedConfirmUnmodified ==
    \A p \in Procs :
        (/\ resp[p].op = "confirm_checkout"
         /\ resp[p].status = "error"
         /\ resp[p].order # 0)
        => ~resp[p].changed

\* C5: no step confirms a cart that has no line.
C5_NoEmptyConfirm ==
    [][\A o \in OrderIds :
           (orders[o].state = "draft" /\ orders'[o].state = "sale")
           => order_line(o) # {}]_vars

C7_ConfirmedImmutable ==
    [][\A o \in OrderIds :
           orders[o].state = "sale"
           => View(orders', lines', o).lines = CartView(o).lines]_vars

\* C8: while add_line is all that acted on the lines of a cart, the cart has
\* for every product that was added one line, its quantity the sum of the
\* quantities of the add_line calls, and no line for any other product.
C8_AddMerges ==
    \A o \in OrderIds, product \in Products :
        hist[o].only_adds =>
            IF hist[o].added[product]
            THEN /\ Cardinality(filtered(lines, o, product)) = 1
                 /\ lines[first_line(lines, o, product)].product_uom_qty
                        = hist[o].sum[product]
            ELSE filtered(lines, o, product) = {}

\* two add_line calls of one unit each were merged into one line
C8_Witness ==
    \E o \in OrderIds, product \in Products :
        /\ hist[o].only_adds
        /\ hist[o].sum[product] = 2
        /\ filtered(lines, o, product) # {}
        /\ lines[first_line(lines, o, product)].product_uom_qty = 2

\* C9: set_line_qty with a quantity of zero or less does to the line table
\* what remove_line does.
C9_ZeroRemoves ==
    [][\A o \in OrderIds, l \in LineIds, q \in Qtys :
           (/\ q <= 0
            /\ LineExists(l)
            /\ update_cart_line(1, o, l,
                                [has_quantity |-> TRUE, quantity |-> q], FALSE))
           => lines' = unlink(lines, l)]_vars

\* C10: every line that exists has a quantity above zero.
C10_PositiveQty ==
    \A l \in LineIds : lines[l].exists => lines[l].product_uom_qty > 0

\* the step answered request 1 with InvalidQuantity and changed nothing
RejectedQuantity ==
    /\ resp'[1].status = "error"
    /\ resp'[1].message = "Quantity must be positive"
    /\ UNCHANGED db

\* C11: every add_line of a product that exists with a quantity of zero or
\* less, through add_to_cart, api_add_to_cart or add_product_to_cart, is
\* rejected with InvalidQuantity and creates or changes no cart and no line.
C11_NonPositiveRejected ==
    [][\A product \in Products, quantity \in Qtys :
           quantity <= 0 =>
               /\ \A u \in Users, found \in 0..MaxOrders :
                      add_to_cart(1, u, product, quantity, found)
                      => RejectedQuantity
               /\ \A s \in Sessions :
                      api_add_to_cart(1, s, product, quantity)
                      => RejectedQuantity
               /\ \A o \in OrderIds :
                      add_product_to_cart(1, o, product, quantity)
                      => RejectedQuantity]_vars

(***************************************************************************)
(* The token codec of auth_login and _validate_jwt.  A byte is a number in *)
(* 0..255 and a text is a sequence of the codes of its characters.  A      *)
(* segment of a token is the sequence of its base64url digits, each        *)
(* written as its value in 0..63.                                          *)
(***************************************************************************)
\* the byte at place i of a byte string, 0 after its end
byte_at(bytes, i) == IF i <= Len(bytes) THEN bytes[i] ELSE 0

\* the base64 digits of a byte string, three bytes to four digits
b64digits(bytes) ==
    [j \in 1..((Len(bytes) * 4 + 2) \div 3) |->
        LET g == 3 * ((j - 1) \div 4)
            b1 == byte_at(bytes, g + 1)
            b2 == byte_at(bytes, g + 2)
            b3 == byte_at(bytes, g + 3)
        IN  CASE (j - 1) % 4 = 0 -> b1 \div 4
              [] (j - 1) % 4 = 1 -> (b1 % 4) * 16 + b2 \div 16
              [] (j - 1) % 4 = 2 -> (b2 % 16) * 4 + b3 \div 64
              [] OTHER -> b3 % 64]

\* base64.urlsafe_b64encode(bytes): the digits and the number of '=' after
urlsafe_b64encode(bytes) ==
    [data |-> b64digits(bytes), pad |-> (3 - (Len(bytes) % 3)) % 3]

\* .decode().rstrip('='): the segment of the token
rstrip(text) == text.data

\* a segment without the padding it needs
no_padding(segment) == 0

\* '=' * ((-len(segment) % 4) if len(segment) % 4 else 0)
padding(segment) ==
    IF Len(segment) % 4 # 0 THEN (-Len(segment)) % 4 ELSE 0

\* header_b64_padded, payload_b64_padded
padded(segment) == [data |-> segment, pad |-> padding(segment)]

\* the bytes of base64 digits, four digits to three bytes
b64bytes(digits) ==
    [i \in 1..((Len(digits) * 3) \div 4) |->
        LET g == 4 * ((i - 1) \div 3)
        IN  CASE (i - 1) % 3 = 0 -> digits[g + 1] * 4 + digits[g + 2] \div 16
              [] (i - 1) % 3 = 1 ->
                     (digits[g + 2] % 16) * 16 + digits[g + 3] \div 4
              [] OTHER -> (digits[g + 3] % 4) * 64 + digits[g + 4]]

\* base64.urlsafe_b64decode(text): binascii.Error on a count of digits that
\* is one more than a multiple of four and on missing padding
urlsafe_b64decode(text) ==
    IF Len(text.data) % 4 = 1 \/ (Len(text.data) + text.pad) % 4 # 0
    THEN [ok |-> FALSE, bytes |-> <<>>]
    ELSE [ok |-> TRUE, bytes |-> b64bytes(text.data)]

RECURSIVE Digits(_)
\* the decimal digits of n >= 0, as character codes
Digits(n) ==
    IF n < 10 THEN <<48 + n>> ELSE Digits(n \div 10) \o <<48 + (n % 10)>>

\* json.dumps of an int
json_int(n) == IF n < 0 THEN <<45>> \o Digits(-n) ELSE Digits(n)

\* '{"user_id": ', ', "exp": ', ', "iat": ' and '}'
KeyUserId == <<123, 34, 117, 115, 101, 114, 95, 105, 100, 34, 58, 32>>
KeyExp == <<44, 32, 34, 101, 120, 112, 34, 58, 32>>
KeyIat == <<44, 32, 34, 105, 97, 116, 34, 58, 32>>
CloseBrace == <<125>>

\* json.dumps(payload) of payload = {'user_id': .., 'exp': .., 'iat': ..}
json_dumps(payload) ==
    KeyUserId \o json_int(payload.user_id) \o KeyExp \o json_int(payload.exp)
    \o KeyIat \o json_int(payload.iat) \o CloseBrace

\* the values of alg a header can carry
Algs == {"HS256", "none"}

\* json.dumps({'alg': alg, 'typ': 'JWT'}): '{"alg": "HS256", "typ": "JWT"}'
\* and '{"alg": "none", "typ": "JWT"}'
header_json(alg) ==
    <<123, 34, 97, 108, 103, 34, 58, 32, 34>>
    \o (IF alg = "HS256" THEN <<72, 83, 50, 53, 54>> ELSE <<110, 111, 110, 101>>)
    \o <<34, 44, 32, 34, 116, 121, 112, 34, 58, 32, 34, 74, 87, 84, 34, 125>>

StartsWith(text, prefix) ==
    Len(text) >= Len(prefix) /\ SubSeq(text, 1, Len(prefix)) = prefix

Drop(text, n) == SubSeq(text, n + 1, Len(text))

RECURSIVE DigitCount(_)
\* how many decimal digits text starts with
DigitCount(text) ==
    IF text # <<>> /\ text[1] \in 48..57
    THEN 1 + DigitCount(Drop(text, 1))
    ELSE 0

RECURSIVE DigitsValue(_)
\* the number a sequence of decimal digits writes
DigitsValue(text) ==
    IF text = <<>> THEN 0
    ELSE 10 * DigitsValue(SubSeq(text, 1, Len(text) - 1))
         + (text[Len(text)] - 48)

\* a JSON int at the start of text: whether there is one, its value, and
\* the text after it
parse_int(text) ==
    LET minus == text # <<>> /\ text[1] = 45
        body == IF minus THEN Drop(text, 1) ELSE text
        n == DigitCount(body)
        value == DigitsValue(SubSeq(body, 1, n))
    IN  [ok |-> n > 0,
         value |-> IF minus THEN -value ELSE value,
         rest |-> Drop(body, n)]

\* a key and its int at the start of text
parse_member(text, key) ==
    IF StartsWith(text, key)
    THEN parse_int(Drop(text, Len(key)))
    ELSE [ok |-> FALSE, value |-> 0, rest |-> <<>>]

NoJson == [ok |-> FALSE, user_id |-> 0, exp |-> 0, iat |-> 0, alg |-> ""]

\* json.loads(bytes.decode('utf-8')) of the texts that are read here: the
\* header objects and the objects of three int members that json.dumps
\* writes; any other text counts as not JSON
json_loads(bytes) ==
    IF \E b \in 1..Len(bytes) : bytes[b] > 127 THEN NoJson
    ELSE IF \E alg \in Algs : bytes = header_json(alg)
    THEN [NoJson EXCEPT !.ok = TRUE,
                        !.alg = CHOOSE alg \in Algs : bytes = header_json(alg)]
    ELSE LET u == parse_member(bytes, KeyUserId)
             e == parse_member(u.rest, KeyExp)
             i == parse_member(e.rest, KeyIat)
         IN  IF u.ok /\ e.ok /\ i.ok /\ i.rest = CloseBrace
             THEN [NoJson EXCEPT !.ok = TRUE, !.user_id = u.value,
                                 !.exp = e.value, !.iat = i.value]
             ELSE NoJson

(***************************************************************************)
(* auth_login: the token it issues.                                        *)
(***************************************************************************)
\* int(get_param('auth_token.expires_in', 3600)) when the parameter is unset
DefaultExpiresIn == 3600

\* base64url(hmac.new(key, header + '.' + payload, sha256).digest()) without
\* padding: HMAC-SHA256 taken as free of collisions, the text stands for the
\* key and the message it was computed from
sign(key, header, payload) ==
    [kind |-> "mac", key |-> key, header |-> header, payload |-> payload]

\* base64.urlsafe_b64encode(text.encode()).decode().rstrip('=')
segment(text) == rstrip(urlsafe_b64encode(text))

\* an exp equal to iat, whatever expires_in is
expires_at_now(time, expires_in) == time

\* int((datetime.now() + timedelta(seconds=expires_in)).timestamp())
expires_at(time, expires_in) == time + expires_in

\* payload = {'user_id': user.id, 'exp': .., 'iat': ..}
login_payload(user, time, expires_in) ==
    [user_id |-> user, exp |-> expires_at(time, expires_in), iat |-> time]

\* token = f'{header}.{payload_b64}.{signature}'
encode(payload, secret_key) ==
    LET header == segment(header_json("HS256"))
        payload_b64 == segment(json_dumps(payload))
    IN  [kind |-> "text", dots |-> 2, header |-> header,
         payload |-> payload_b64,
         signature |-> sign(secret_key, header, payload_b64)]

\* a secret key that is taken as configured whatever it is
any_secret(secret_key) == FALSE

\* "if not secret_key"
no_secret(secret_key) == secret_key = 0

\* the values auth_token.expires_in can be set to: a text that int() parses
\* to value, or a text that int() rejects
ExpiresInValues == {-1, 0, 1, 2, 10}
ExpiresInParams ==
    {[kind |-> "int", value |-> v] : v \in ExpiresInValues}
    \cup {[kind |-> "invalid", value |-> 0]}

\* what a login request carries: a body that is no object, a body without
\* the fields, empty fields, or a login and a password
Bodies == {"not a dict", "missing fields", "empty fields", "ok"}
\* logins: the login of user u is u; 9 is the login of nobody
Logins == Users \cup {9}

LoginFailed(code, message, time) ==
    [NoAuth EXCEPT !.op = "auth_login", !.code = code, !.message = message,
                   !.at = time]

\* the outcome of auth_login and the response it issued, if any
auth_login_result(body, login, password_ok, ps, time, users) ==
    IF body = "not a dict"
    THEN [auth |-> LoginFailed(400, "Invalid JSON payload", time),
          issued |-> NoIssued]
    ELSE IF body = "missing fields"
    THEN [auth |-> LoginFailed(400, "Missing required fields", time),
          issued |-> NoIssued]
    ELSE IF body = "empty fields"
    THEN [auth |-> LoginFailed(400, "Empty fields are not allowed", time),
          issued |-> NoIssued]
    ELSE IF login \notin Users \/ users[login] # "active" \/ ~password_ok
    THEN \* request.session.authenticate raises AccessDenied
         [auth |-> LoginFailed(401, "Invalid credentials", time),
          issued |-> NoIssued]
    ELSE IF no_secret(ps.secret_key)
    THEN [auth |-> LoginFailed(500, "Server configuration error", time),
          issued |-> NoIssued]
    ELSE IF ps.expires_in.kind = "invalid"
    THEN \* int() raises ValueError, "except Exception" answers
         [auth |-> LoginFailed(500, "Internal server error", time),
          issued |-> NoIssued]
    ELSE LET expires_in == IF ps.expires_in.kind = "unset"
                           THEN DefaultExpiresIn
                           ELSE ps.expires_in.value
             payload == login_payload(login, time, expires_in)
             token == encode(payload, ps.secret_key)
         IN  [auth |-> [NoAuth EXCEPT !.op = "auth_login", !.code = 200,
                                      !.user_id = login, !.token = token,
                                      !.at = time],
              issued |-> [user_id |-> login, expires_in |-> expires_in,
                          payload |-> payload, token |-> token]]

(***************************************************************************)
(* CartAPI._validate_jwt, and the Authorization header add_to_cart reads.  *)
(***************************************************************************)
ValidateFailed(code, message) ==
    [user_id |-> 0, code |-> code, message |-> message]

\* hmac.compare_digest raises TypeError on a str that is not ASCII
compare_raises(a, b) == a.kind = "nonascii" \/ b.kind = "nonascii"

\* hmac.compare_digest(a, b)
compare_digest(a, b) == a = b

\* a check of the signature that trusts the alg of the header
signature_ok_alg(token, secret_key) ==
    \/ json_loads(urlsafe_b64decode(padded(token.header)).bytes).alg = "none"
    \/ compare_digest(token.signature,
                      sign(secret_key, token.header, token.payload))

\* hmac.compare_digest(signature_b64, expected_signature)
signature_ok(token, secret_key) ==
    compare_digest(token.signature,
                   sign(secret_key, token.header, token.payload))

\* a check of exp that lets every token through
never_expired(token_exp, current_time) == FALSE

\* "token_exp < current_time"
expired(token_exp, current_time) == token_exp < current_time

\* user.exists()
user_exists(users, user_id) ==
    user_id \in DOMAIN users /\ users[user_id] # "absent"

\* _validate_jwt after the segments are decoded: the secret, the signature,
\* exp, user_id and the user
validate_claims(token, payload, secret_key, current_time, users) ==
    IF no_secret(secret_key)
    THEN ValidateFailed(500, "Server configuration error")
    ELSE IF compare_raises(token.signature,
                           sign(secret_key, token.header, token.payload))
    THEN \* "except Exception" answers
         ValidateFailed(401, "Invalid token: TypeError")
    ELSE IF ~signature_ok(token, secret_key)
    THEN ValidateFailed(401, "Invalid token signature")
    ELSE IF expired(payload.exp, current_time)
    THEN ValidateFailed(401, "Token expired")
    ELSE IF payload.user_id = 0
    THEN ValidateFailed(401, "Invalid token: missing or invalid user_id")
    ELSE IF ~user_exists(users, payload.user_id)
    THEN ValidateFailed(401, "Invalid user")
    ELSE [user_id |-> payload.user_id, code |-> 200, message |-> ""]

\* json.loads(base64.urlsafe_b64decode(segment_padded).decode('utf-8'))
decode_segment(segment_bytes) ==
    IF ~segment_bytes.ok THEN [NoJson EXCEPT !.alg = "binascii.Error"]
    ELSE json_loads(segment_bytes.bytes)

\* _validate_jwt after the split, header and payload being what the two
\* segments decode to
validate_segments(token, header, payload, secret_key, current_time, users) ==
    IF ~header.ok
    THEN ValidateFailed(401, IF header.alg = "binascii.Error"
                             THEN "Invalid token encoding"
                             ELSE "Invalid token structure")
    ELSE IF ~payload.ok
    THEN ValidateFailed(401, IF payload.alg = "binascii.Error"
                             THEN "Invalid token encoding"
                             ELSE "Invalid token structure")
    ELSE validate_claims(token, payload, secret_key, current_time, users)

\* _validate_jwt(token): (user_id, error message, status code)
validate_jwt(token, secret_key, current_time, users) ==
    IF token.kind # "text"
    THEN ValidateFailed(401, "Invalid token: empty or not a string")
    ELSE IF token.dots # 2
    THEN ValidateFailed(401, "Invalid token format")
    ELSE validate_segments(
             token,
             decode_segment(urlsafe_b64decode(padded(token.header))),
             decode_segment(urlsafe_b64decode(padded(token.payload))),
             secret_key, current_time, users)

\* the Authorization header of a request: whether it starts with 'Bearer ',
\* and the token after it
Credential(bearer, token) == [bearer |-> bearer, token |-> token]

\* add_to_cart up to "if error_data: return error_data"
add_to_cart_auth_result(credential, secret_key, current_time, users) ==
    IF ~credential.bearer
    THEN ValidateFailed(401, "Authorization token required")
    ELSE validate_jwt(credential.token, secret_key, current_time, users)

(***************************************************************************)
(* The token operations as actions.                                        *)
(***************************************************************************)
MaxTime == 2

\* auth_token.secret_key: 0 is "not set"
SecretKeys == {0, 1, 2}

\* ir.config_parameter set_param('auth_token.secret_key', key)
set_secret_key(key) ==
    /\ params.secret_key # key
    /\ params' = [params EXCEPT !.secret_key = key]
    /\ UNCHANGED <<now, res_users, issued, auth>>
    /\ UNCHANGED <<cart_vars, shop_vars>>

\* ir.config_parameter set_param('auth_token.expires_in', value)
set_expires_in(value) ==
    /\ params.expires_in # value
    /\ params' = [params EXCEPT !.expires_in = value]
    /\ UNCHANGED <<now, res_users, issued, auth>>
    /\ UNCHANGED <<cart_vars, shop_vars>>

\* datetime.datetime.now() a second later
tick ==
    /\ now < MaxTime
    /\ now' = now + 1
    /\ UNCHANGED <<params, res_users, issued, auth>>
    /\ UNCHANGED <<cart_vars, shop_vars>>

\* res.users write({'active': False})
archive_user(u) ==
    /\ res_users[u] = "active"
    /\ res_users' = [res_users EXCEPT ![u] = "archived"]
    /\ UNCHANGED <<params, now, issued, auth>>
    /\ UNCHANGED <<cart_vars, shop_vars>>

\* res.users unlink()
unlink_user(u) ==
    /\ res_users[u] # "absent"
    /\ res_users' = [res_users EXCEPT ![u] = "absent"]
    /\ UNCHANGED <<params, now, issued, auth>>
    /\ UNCHANGED <<cart_vars, shop_vars>>

\* POST /api/v1/auth/login
auth_login(body, login, password_ok) ==
    LET result == auth_login_result(body, login, password_ok, params, now,
                                    res_users)
    IN  /\ auth' = result.auth
        /\ issued' = IF result.issued = NoIssued THEN issued
                     ELSE result.issued
        /\ UNCHANGED <<params, now, res_users>>
        /\ UNCHANGED <<cart_vars, shop_vars>>

\* a signature segment that is some other text of the base64url alphabet
OtherSignature == [NoSignature EXCEPT !.kind = "text"]
\* a signature segment with a character outside ASCII
NonAsciiSignature == [NoSignature EXCEPT !.kind = "nonascii"]

\* the token of payload under header, signed with key
signed(header, payload, key) ==
    LET payload_b64 == segment(json_dumps(payload))
    IN  [kind |-> "text", dots |-> 2, header |-> header,
         payload |-> payload_b64,
         signature |-> sign(key, header, payload_b64)]

\* the user id of nobody
NoUser == 9
\* the key of somebody else
OtherKey == 2

\* the tokens a client can make of the token t it was issued with payload p
Variants(t, p) ==
    { t,
      \* the signature segment changed
      [t EXCEPT !.signature = OtherSignature],
      [t EXCEPT !.signature = NonAsciiSignature],
      \* a character of the signature turned into a period
      [t EXCEPT !.signature = OtherSignature, !.dots = 3],
      \* the header says alg none
      [t EXCEPT !.header = segment(header_json("none"))],
      [t EXCEPT !.header = segment(header_json("none")),
                !.signature = OtherSignature],
      \* the payload changed under the signature of t
      [t EXCEPT !.payload = segment(json_dumps([p EXCEPT !.exp = @ + 10]))],
      \* a payload signed with another key
      signed(t.header, [p EXCEPT !.user_id = NoUser], OtherKey),
      signed(t.header, [p EXCEPT !.user_id = 0], OtherKey),
      signed(t.header, [p EXCEPT !.iat = MaxTime + 1, !.exp = MaxTime + 2],
             OtherKey),
      \* segments that are not base64url, or not JSON
      [t EXCEPT !.payload = <<65>>],
      [t EXCEPT !.header = segment(CloseBrace)] }

\* the tokens a request can carry
Presented ==
    {NoToken} \cup (IF issued = NoIssued THEN {}
                    ELSE Variants(issued.token, issued.payload))

\* the Authorization headers a request to the cart can carry
Credentials ==
    {Credential(FALSE, NoToken), Credential(TRUE, NoToken)}
    \cup (IF issued = NoIssued THEN {}
          ELSE {Credential(TRUE, issued.token),
                Credential(TRUE, [issued.token EXCEPT
                                      !.signature = OtherSignature])})

\* CartAPI._validate_jwt(token, client_ip, request_time)
CartAPI_validate_jwt(token) ==
    LET result == validate_jwt(token, params.secret_key, now, res_users)
    IN  /\ auth' = [op |-> "validate_jwt", code |-> result.code,
                    message |-> result.message, user_id |-> result.user_id,
                    token |-> token, at |-> now]
        /\ UNCHANGED <<params, now, res_users, issued>>
        /\ UNCHANGED <<cart_vars, shop_vars>>

\* POST /api/v1/cart/add of a request that is not authenticated: the handler
\* returns error_data and drops the status code, the route is type='json'
add_to_cart_unauthorized(credential) ==
    LET result == add_to_cart_auth_result(credential, params.secret_key, now,
                                          res_users)
    IN  /\ result.user_id = 0
        /\ auth' = [op |-> "add_to_cart", code |-> 200,
                    message |-> result.message, user_id |-> 0,
                    token |-> credential.token, at |-> now]
        /\ UNCHANGED <<params, now, res_users, issued>>
        /\ UNCHANGED <<cart_vars, shop_vars>>

NextLogin ==
    \/ \E key \in {0, 1} : set_secret_key(key)
    \/ \E value \in ExpiresInParams \cup {Unset} : set_expires_in(value)
    \/ tick
    \/ \E u \in Users : archive_user(u)
    \/ \E u \in Users : unlink_user(u)
    \/ \E body \in Bodies, login \in Logins, password_ok \in BOOLEAN :
           auth_login(body, login, password_ok)
    \/ issued # NoIssued /\ CartAPI_validate_jwt(issued.token)

SpecLogin == Init /\ [][NextLogin]_vars

\* the setting of a server that issues tokens of one second
ShortExpiresIn == {[kind |-> "int", value |-> 1]}

NextAuth ==
    \/ \E key \in SecretKeys : set_secret_key(key)
    \/ \E value \in ShortExpiresIn : set_expires_in(value)
    \/ tick
    \/ \E u \in Users : archive_user(u)
    \/ \E u \in Users : unlink_user(u)
    \/ \E login \in Logins, password_ok \in BOOLEAN :
           auth_login("ok", login, password_ok)
    \/ \E token \in Presented : CartAPI_validate_jwt(token)
    \/ \E credential \in Credentials : add_to_cart_unauthorized(credential)

SpecAuth == Init /\ [][NextAuth]_vars

(***************************************************************************)
(* Properties of the tokens.                                               *)
(***************************************************************************)
\* the claims the payload segment of a token decodes to
Claims(token) == decode_segment(urlsafe_b64decode(padded(token.payload)))

\* a token of three segments whose header and payload decode
WellFormed(token) ==
    /\ token.kind = "text"
    /\ token.dots = 2
    /\ decode_segment(urlsafe_b64decode(padded(token.header))).ok
    /\ Claims(token).ok

\* the signature of a token is the one the secret gives its two segments
ValidSignature(token, secret_key) ==
    token.signature = sign(secret_key, token.header, token.payload)

\* a step in which _validate_jwt answered auth'.token; the step leaves the
\* secret, the clock and the users as they were when it answered
Validated == auth' # auth /\ auth'.op = "validate_jwt"

\* C12 as stated: a well-formed token whose exp is in the past fails with
\* 'Token expired' whether its signature is valid or not.
C12_ExpiredWhateverSignature ==
    [][(/\ Validated
        /\ WellFormed(auth'.token)
        /\ Claims(auth'.token).exp < now
        /\ params.secret_key # 0)
       => auth'.message = "Token expired"]_vars

\* C12: a well-formed token whose exp is in the past is refused with 401; the
\* signature is checked first, so the message is 'Token expired' when the
\* signature is valid and 'Invalid token signature' when it is another text.
C12_ExpiredAfterSignature ==
    [][(/\ Validated
        /\ WellFormed(auth'.token)
        /\ Claims(auth'.token).exp < now
        /\ params.secret_key # 0)
       => /\ auth'.code = 401
          /\ auth'.user_id = 0
          /\ ValidSignature(auth'.token, params.secret_key)
                 => auth'.message = "Token expired"
          /\ (/\ ~ValidSignature(auth'.token, params.secret_key)
              /\ auth'.token.signature.kind # "nonascii")
                 => auth'.message = "Invalid token signature"]_vars

\* an expired token with a changed signature was answered
C12_Witness ==
    /\ auth.op = "validate_jwt"
    /\ WellFormed(auth.token)
    /\ Claims(auth.token).exp < auth.at
    /\ auth.token.signature = OtherSignature
    /\ auth.message = "Invalid token signature"

\* the token keeps the two segments that were issued, under another
\* signature segment
SignatureChanged(token) ==
    /\ issued # NoIssued
    /\ token.kind = "text"
    /\ token.payload = issued.token.payload
    /\ token.signature # issued.token.signature

\* C13 as stated: a token whose signature segment was changed is answered
\* 'Invalid token signature'.
C13_ChangedSignatureIsBadSignature ==
    [][(Validated /\ SignatureChanged(auth'.token) /\ params.secret_key # 0)
       => auth'.message = "Invalid token signature"]_vars

\* C13: a token whose signature segment was changed never resolves to a user,
\* whatever alg its header names; the answer is 'Invalid token signature'
\* when the changed segment is ASCII text without a period.
C13_ChangedSignatureRefused ==
    [][(Validated /\ SignatureChanged(auth'.token))
       => /\ auth'.user_id = 0
          /\ auth'.code # 200
          /\ (/\ params.secret_key # 0
              /\ auth'.token.dots = 2
              /\ auth'.token.signature.kind = "text")
                 => (auth'.code = 401
                     /\ auth'.message = "Invalid token signature")]_vars

\* a token that names alg none under a changed signature was refused
C13_Witness ==
    /\ auth.op = "validate_jwt"
    /\ issued # NoIssued
    /\ auth.token.payload = issued.token.payload
    /\ auth.token.header = segment(header_json("none"))
    /\ auth.token.signature = OtherSignature
    /\ auth.message = "Invalid token signature"
    /\ auth.user_id = 0

\* C14: the claims a token was issued with are the claims its payload segment
\* decodes to: user_id, exp and iat come back as they went in.
C14_RoundTrip ==
    issued # NoIssued =>
        /\ WellFormed(issued.token)
        /\ Claims(issued.token).user_id = issued.payload.user_id
        /\ Claims(issued.token).exp = issued.payload.exp
        /\ Claims(issued.token).iat = issued.payload.iat

\* a token whose payload segment needs padding, with an exp below zero, was
\* issued and then decoded
C14_Witness ==
    /\ issued # NoIssued
    /\ padding(issued.token.payload) # 0
    /\ issued.payload.exp < 0
    /\ auth.op = "validate_jwt"
    /\ auth.token = issued.token
    /\ auth.message # "Invalid token encoding"

\* C15: an issued token has three segments, and while the secret is the one
\* it was signed with, the user is there, and iat <= now < iat + expires_in,
\* with expires_in positive, _validate_jwt returns the user it was issued for.
C15_IssuedTokenAuthenticates ==
    [][/\ issued' # NoIssued => issued'.token.dots = 2
       /\ (/\ Validated
           /\ issued # NoIssued
           /\ auth'.token = issued.token
           /\ issued.expires_in > 0
           /\ params.secret_key = issued.token.signature.key
           /\ res_users[issued.user_id] = "active"
           /\ issued.payload.iat <= now
           /\ now < issued.payload.iat + issued.expires_in)
          => (auth'.code = 200 /\ auth'.user_id = issued.user_id)]_vars

\* the token was accepted some time after it was issued
C15_Witness ==
    /\ issued # NoIssued
    /\ auth.op = "validate_jwt"
    /\ auth.token = issued.token
    /\ auth.at > issued.payload.iat
    /\ auth.code = 200
    /\ auth.user_id = issued.user_id

\* C16: a token is accepted only if exp > now and iat <= now.
C16_AcceptedInsideWindow ==
    [][(Validated /\ auth'.code = 200)
       => /\ Claims(auth'.token).exp > now
          /\ Claims(auth'.token).iat <= now]_vars

\* C17: _validate_jwt never returns a user that is absent or archived.
C17_OnlyActiveUsers ==
    [][(Validated /\ auth'.code = 200)
       => /\ auth'.user_id \in DOMAIN res_users
          /\ res_users[auth'.user_id] = "active"]_vars

\* an answer that refuses the credential of a request, the secret being set
AuthFailure(answer) ==
    /\ answer.op \in {"validate_jwt", "add_to_cart"}
    /\ answer.user_id = 0
    /\ answer.message # "Server configuration error"

\* C18: every answer that refuses a credential is the same 401 with the same
\* body, whichever check failed.
C18_SameFailure ==
    [][(AuthFailure(auth) /\ AuthFailure(auth'))
       => /\ auth'.code = 401
          /\ auth'.message = auth.message]_vars

\* auth_login with the login and the password of a user that can log in
ValidLogin(login) ==
    /\ res_users[login] = "active"
    /\ auth_login("ok", login, TRUE)

\* C19: without a secret key a login with valid credentials is answered 500
\* 'Server configuration error' and issues no token; the logins that fail on
\* the side of the client are answered 400 or 401.
C19_NoSecretNoToken ==
    [][/\ \A login \in Users :
              (ValidLogin(login) /\ params.secret_key = 0)
              => /\ auth'.code = 500
                 /\ auth'.message = "Server configuration error"
                 /\ auth'.token = NoToken
                 /\ issued' = issued
       /\ \A body \in Bodies, login \in Logins, password_ok \in BOOLEAN :
              (/\ auth_login(body, login, password_ok)
               /\ \/ body # "ok"
                  \/ ~password_ok
                  \/ login \notin Users
                  \/ res_users[login] # "active")
              => auth'.code \in {400, 401}]_vars

\* a login was answered with the configuration error
C19_Witness ==
    /\ params.secret_key = 0
    /\ auth.op = "auth_login"
    /\ auth.code = 500
    /\ auth.message = "Server configuration error"
    /\ auth.token = NoToken

\* C20: with an expires_in that is set to no number, to zero or to a negative
\* number, a login is answered 500 'Server configuration error' and issues no
\* token; no token is issued with exp <= iat.
C20_BadTtlNoToken ==
    [][\A login \in Users :
           (ValidLogin(login) /\ params.secret_key # 0)
           => /\ (\/ params.expires_in.kind = "invalid"
                  \/ (/\ params.expires_in.kind = "int"
                      /\ params.expires_in.value <= 0))
                 => /\ auth'.code = 500
                    /\ auth'.message = "Server configuration error"
                    /\ auth'.token = NoToken
                    /\ issued' = issued
              /\ auth'.code = 200
                 => issued'.payload.exp > issued'.payload.iat]_vars

\* the keys of the payload auth_login writes
PayloadKeys == {"user_id", "exp", "iat"}

\* decoded[key] of the claims a token decodes to: whether the payload carries
\* the key (KeyError if not), and the value under it
payload_get(claims, key) ==
    IF key \notin PayloadKeys THEN [found |-> FALSE, value |-> 0]
    ELSE [found |-> TRUE,
          value |-> CASE key = "user_id" -> claims.user_id
                      [] key = "exp" -> claims.exp
                      [] key = "iat" -> claims.iat]

\* C21: the token of a successful login verifies under the secret with HS256,
\* its user_id is the id and its sub the login of the user who logged in, and
\* its exp is greater than its iat.
C21_TokenBindsUser ==
    [][\A login \in Users :
           (ValidLogin(login) /\ auth'.code = 200)
           => /\ WellFormed(auth'.token)
              /\ ValidSignature(auth'.token, params.secret_key)
              /\ decode_segment(urlsafe_b64decode(padded(auth'.token.header))).alg
                     = "HS256"
              /\ payload_get(Claims(auth'.token), "user_id")
                     = [found |-> TRUE, value |-> login]
              /\ payload_get(Claims(auth'.token), "sub")
                     = [found |-> TRUE, value |-> login]
              /\ payload_get(Claims(auth'.token), "exp").value
                     > payload_get(Claims(auth'.token), "iat").value]_vars

(***************************************************************************)
(* /api/shop/address and POST /api/shop/checkout: the addresses of a cart. *)
(***************************************************************************)
MaxPartners == 5

\* required_fields = ['name', 'street', 'city', 'country_id']
required_fields == <<"name", "street", "city", "country_id">>

\* the address dicts a request can carry: a field of value 0 is missing or
\* empty; id is the 'id' key of the dict, 0 when it has none
AddressInput(name, street, city, country_id, id) ==
    [name |-> name, street |-> street, city |-> city,
     country_id |-> country_id, id |-> id]
\* data.get('billing', {}) of a request without the key
EmptyDict == AddressInput(0, 0, 0, 0, 0)
\* partner ids a request can carry: none, another customer's, nobody's
PartnerIds == {0, OtherPartner, 9}
Billings ==
    {AddressInput(1, 1, 1, 1, id) : id \in PartnerIds}
    \cup {AddressInput(1, 0, 1, 1, 0), AddressInput(1, 0, 0, 1, 0)}
Shippings == {AddressInput(2, 2, 2, 2, 0), AddressInput(2, 2, 0, 0, 0)}
\* the values of same_as_billing: the key is absent, true or false
Sames == {"absent", "true", "false"}

\* the body of a request to save_address or to POST /api/shop/checkout;
\* carrier_id 0 is a body without the key
AddressData(has_billing, billing, has_shipping, shipping, same, carrier) ==
    [has_billing |-> has_billing, billing |-> billing,
     has_shipping |-> has_shipping, shipping |-> shipping,
     same |-> same, carrier_id |-> carrier]

\* billing = data.get('billing', {})
billing_of(data) == IF data.has_billing THEN data.billing ELSE EmptyDict
\* shipping = data.get('shipping', billing)
shipping_of(data) ==
    IF data.has_shipping THEN data.shipping ELSE billing_of(data)
\* same = data.get('same_as_billing', True)
same_of(data) == data.same # "false"

\* the required fields a dict lacks, in the order of required_fields
missing_fields(values) ==
    SelectSeq(required_fields, LAMBDA field : values[field] = 0)

\* every required field a dict lacks
all_missing(values) ==
    {missing_fields(values)[i] : i \in 1..Len(missing_fields(values))}

\* "for field in required_fields: if not values.get(field): return": the
\* first required field a dict lacks
first_missing(values) ==
    IF missing_fields(values) = <<>> THEN {}
    ELSE {missing_fields(values)[1]}

\* the validation of billing and shipping: the message and the fields it
\* names; "" when both pass
address_error(data) ==
    IF first_missing(billing_of(data)) # {}
    THEN [message |-> "Billing field is required",
          fields |-> first_missing(billing_of(data))]
    ELSE IF ~same_of(data) /\ first_missing(shipping_of(data)) # {}
    THEN [message |-> "Shipping field is required",
          fields |-> first_missing(shipping_of(data))]
    ELSE [message |-> "", fields |-> {}]

\* the fields of a dict that are written to the partner
address_values(values) ==
    [name |-> values.name, street |-> values.street, city |-> values.city,
     country_id |-> values.country_id]

\* _create_or_update(values): the partner table afterwards and the partner
\* that was written or created
create_or_update(partners, values) ==
    IF values.id # 0 /\ values.id \in DOMAIN partners
    THEN [partners |-> [partners EXCEPT ![values.id] = address_values(values)],
          id |-> values.id]
    ELSE [partners |-> Append(partners, address_values(values)),
          id |-> Len(partners) + 1]

\* "Shipping": the billing partner when same, a partner of its own if not
shipping_partner(billing_partner, data) ==
    IF same_of(data)
    THEN billing_partner
    ELSE create_or_update(billing_partner.partners, shipping_of(data))

\* order.write({'partner_id': .., 'partner_invoice_id': ..,
\*              'partner_shipping_id': ..})
write_partners(os, o, billing_id) == [os EXCEPT ![o].partner_id = billing_id]
write_addresses(as, o, billing_id, shipping_id) ==
    [as EXCEPT ![o] = [partner_invoice_id |-> billing_id,
                       partner_shipping_id |-> shipping_id]]

\* order._recompute_prices(): the lines of the order get the price of today
recompute_prices(ls, o) ==
    [l \in 1..Len(ls) |->
        IF ls[l].exists /\ ls[l].order_id = o
        THEN [ls[l] EXCEPT !.price_unit = list_price(ls[l].product_id)]
        ELSE ls[l]]

\* POST /api/shop/address
save_address(p, s, data) ==
    LET got == force_create(orders, session_order, s)
        o == got.cart
        error == address_error(data)
        billing_partner == create_or_update(res_partner, billing_of(data))
        shipping == shipping_partner(billing_partner, data)
    IN  /\ pc[p] = "idle"
        /\ Len(got.orders) <= MaxOrders
        /\ session_order' = [session_order EXCEPT ![s] = o]
        /\ IF error.message # ""
           THEN /\ orders' = got.orders
                /\ resp' = [resp EXCEPT ![p] =
                               [Response("save_address", "error", error.message)
                                   EXCEPT !.order = o, !.fields = error.fields]]
                /\ UNCHANGED <<lines, res_partner, order_address>>
           ELSE /\ Len(shipping.partners) <= MaxPartners
                /\ res_partner' = shipping.partners
                /\ orders' = write_partners(got.orders, o, billing_partner.id)
                /\ order_address' = write_addresses(order_address, o,
                                                    billing_partner.id,
                                                    shipping.id)
                /\ lines' = recompute_prices(lines, o)
                /\ resp' = [resp EXCEPT ![p] =
                               [Response("save_address", "success", "")
                                   EXCEPT !.order = o]]
        /\ UNCHANGED <<hist, pc, req, loc, product_price, rate_vars>>
        /\ UNCHANGED token_vars

\* "Update carrier if provided": a carrier that exists is stored with its
\* fixed price, any other id is passed over
update_carrier(os, o, carrier) ==
    IF carrier \in Carriers
    THEN set_delivery_line(os, o, carrier, fixed_price(carrier))
    ELSE os

\* POST /api/shop/checkout: _update_checkout_data, which ends with
\* _get_checkout_data
update_checkout_data(p, s, data) ==
    LET got == force_create(orders, session_order, s)
        o == got.cart
        error == IF data.has_billing THEN address_error(data)
                 ELSE [message |-> "", fields |-> {}]
        billing_partner == create_or_update(res_partner, billing_of(data))
        shipping == shipping_partner(billing_partner, data)
        os1 == IF data.has_billing
               THEN write_partners(got.orders, o, billing_partner.id)
               ELSE got.orders
        os2 == IF data.carrier_id # 0 THEN update_carrier(os1, o, data.carrier_id)
               ELSE os1
        ls1 == recompute_prices(lines, o)
    IN  /\ pc[p] = "idle"
        /\ Len(got.orders) <= MaxOrders
        /\ session_order' = [session_order EXCEPT ![s] = o]
        /\ IF error.message # ""
           THEN /\ orders' = got.orders
                /\ resp' = [resp EXCEPT ![p] =
                               [Response("update_checkout_data", "error",
                                         error.message)
                                   EXCEPT !.order = o, !.fields = error.fields]]
                /\ UNCHANGED <<lines, res_partner, order_address>>
           ELSE /\ data.has_billing => Len(shipping.partners) <= MaxPartners
                /\ res_partner' = IF data.has_billing THEN shipping.partners
                                  ELSE res_partner
                /\ order_address' =
                       IF data.has_billing
                       THEN write_addresses(order_address, o,
                                            billing_partner.id, shipping.id)
                       ELSE order_address
                /\ orders' = os2
                /\ lines' = ls1
                /\ resp' = [resp EXCEPT ![p] =
                               [Response("update_checkout_data", "success", "")
                                   EXCEPT !.order = o,
                                          !.totals = totals_of(os2, ls1, o)]]
        /\ UNCHANGED <<hist, pc, req, loc, product_price, rate_vars>>
        /\ UNCHANGED token_vars

\* the bodies of the requests that set addresses
AddressDatas ==
    {AddressData(TRUE, billing, TRUE, shipping, same, 0) :
         billing \in Billings, shipping \in Shippings, same \in Sames}
    \cup {AddressData(TRUE, billing, FALSE, EmptyDict, same, 0) :
              billing \in Billings, same \in Sames}
    \cup {AddressData(FALSE, EmptyDict, FALSE, EmptyDict, "absent", carrier) :
              carrier \in CarrierIds}

NextAddress ==
    \/ \E s \in Sessions, data \in AddressDatas : save_address(1, s, data)
    \/ \E s \in Sessions, data \in AddressDatas :
           update_checkout_data(1, s, data)

SpecAddress == Init /\ [][NextAddress]_vars

\* request 1 of session s was a set_address with body data
SetAddress(s, data) ==
    /\ data.has_billing
    /\ save_address(1, s, data) \/ update_checkout_data(1, s, data)

\* the required fields that the addresses of a request lack: those of the
\* billing address, or else those of a shipping address that is given as
\* different
Lacking(data) ==
    IF all_missing(billing_of(data)) # {} THEN all_missing(billing_of(data))
    ELSE IF data.has_shipping /\ data.same = "false"
    THEN all_missing(data.shipping)
    ELSE {}

\* C22: a set_address whose billing address, or whose explicitly different
\* shipping address, lacks required fields fails, the error names every
\* field that is missing, and the addresses and the owner of every cart are
\* as before.
C22_IncompleteAddressListed ==
    [][\A s \in Sessions, data \in AddressDatas :
           (SetAddress(s, data) /\ Lacking(data) # {})
           => /\ resp'[1].status = "error"
              /\ resp'[1].fields = Lacking(data)
              /\ UNCHANGED <<res_partner, order_address>>
              /\ \A o \in OrderIds :
                     orders'[o].partner_id = orders[o].partner_id]_vars

\* C23: after a set_address that succeeded the shipping address of the cart
\* equals its billing address exactly when the request carried no shipping
\* address, and a shipping address that was carried is the one stored.
C23_ShippingMirrorsBilling ==
    [][\A s \in Sessions, data \in AddressDatas :
           (SetAddress(s, data) /\ resp'[1].status = "success")
           => LET address == order_address'[session_order'[s]]
              IN  /\ (res_partner'[address.partner_shipping_id]
                          = res_partner'[address.partner_invoice_id])
                     <=> ~data.has_shipping
                  /\ data.has_shipping
                         => res_partner'[address.partner_shipping_id]
                                = address_values(data.shipping)]_vars

\* the partner that owns the cart of session s before a request: the partner
\* of the session when the request is the one that creates the cart
OwnerBefore(s) ==
    IF session_order[s] = 0 THEN SessionPartner(s)
    ELSE orders[session_order[s]].partner_id

\* C30: a set_address that succeeded leaves the cart with the owner it had,
\* and writes to no partner record other than the owner's.
C30_OwnerKept ==
    [][\A s \in Sessions, data \in AddressDatas :
           (SetAddress(s, data) /\ resp'[1].status = "success")
           => /\ orders'[session_order'[s]].partner_id = OwnerBefore(s)
              /\ \A a \in DOMAIN res_partner :
                     a # OwnerBefore(s) => res_partner'[a] = res_partner[a]]_vars

(***************************************************************************)
(* The carrier of a cart: OneStepCheckout and CustomWebsiteSale.           *)
(***************************************************************************)
\* what the rate collaborator does when it is asked for a quote: it reports
\* a price, it reports no success, or it raises
Quotes == {"success", "failure", "raises"}

\* order._check_carrier_quotation(carrier), for a quote that does not raise:
\* the carrier is stored with the price of the quote, with 0.0 when the
\* quote reports no success
check_carrier_quotation(os, o, carrier, quote) ==
    set_delivery_line(os, o, carrier,
                      IF quote = "success" THEN fixed_price(carrier) ELSE 0)

\* request.website.sale_get_order(): the cart of the session, 0 for none
sale_get_order(so, s) == so[s]

\* the checks of update_carrier_json before the quote; "" when they pass
update_carrier_error(o, carrier) ==
    IF o = 0 THEN "No active order"
    ELSE IF carrier = 0 THEN "carrier_id required"
    ELSE IF carrier \notin Carriers THEN "Invalid carrier"
    ELSE ""

\* POST /shop/checkout/update_carrier
update_carrier_json(p, s, carrier, quote) ==
    LET o == sale_get_order(session_order, s)
        error == update_carrier_error(o, carrier)
        os1 == check_carrier_quotation(orders, o, carrier, quote)
    IN  /\ IF error # ""
           THEN /\ Reply(p, Response("update_carrier_json", "error", error))
                /\ UNCHANGED db
           ELSE IF quote = "raises"
           THEN /\ Reply(p, [Response("update_carrier_json", "error",
                                      "str(e)") EXCEPT !.order = o])
                /\ UNCHANGED db
           ELSE /\ orders' = os1
                /\ UNCHANGED <<lines, session_order>>
                /\ Reply(p, [Response("update_carrier_json", "success", "")
                                EXCEPT !.order = o, !.carrier_id = carrier,
                                       !.totals = totals_of(os1, lines, o)])

\* the body of a request to one_step_submit: the address fields, email (0:
\* missing, 1: an address, 2: a text that is no address) and carrier_id
CheckoutPost(values, email, carrier) ==
    [values |-> values, email |-> email, carrier_id |-> carrier]
CheckoutPosts ==
    {CheckoutPost(AddressInput(1, 1, 1, 1, 0), email, carrier) :
         email \in {1, 2}, carrier \in CarrierIds}
    \cup {CheckoutPost(AddressInput(1, 1, 0, 1, 0), 0, 0)}

\* missing = [f for f in required_fields if not post.get(f)], with
\* required_fields = ['name', 'email', 'street', 'city', 'country_id']
missing(post) ==
    all_missing(post.values) \cup (IF post.email = 0 THEN {"email"} ELSE {})

\* the checks of one_step_submit; "" when they pass
one_step_error(ls, o, post) ==
    IF o = 0 \/ lines_of(ls, o) = {}
    THEN [message |-> "Cart is empty", fields |-> {}]
    ELSE IF missing(post) # {}
    THEN [message |-> "Missing required field(s)", fields |-> missing(post)]
    ELSE IF post.email # 1
    THEN [message |-> "Invalid email format", fields |-> {}]
    ELSE [message |-> "", fields |-> {}]

\* "4. Carrier selection": the order table afterwards and delivery_amount
carrier_selection(os, o, carrier, quote) ==
    IF carrier \in Carriers /\ quote # "raises"
    THEN LET os1 == check_carrier_quotation(os, o, carrier, quote)
         IN  [orders |-> os1, delivery_amount |-> os1[o].amount_delivery]
    ELSE [orders |-> os, delivery_amount |-> 0]

\* POST /api/v1/checkout
one_step_submit(p, s, post, quote) ==
    LET o == sale_get_order(session_order, s)
        error == one_step_error(lines, o, post)
        selected == carrier_selection(orders, o, post.carrier_id, quote)
        amounts == compute_amounts(selected.orders, lines, o)
    IN  /\ pc[p] = "idle"
        /\ IF error.message # ""
           THEN /\ resp' = [resp EXCEPT ![p] =
                               [Response("one_step_submit", "error",
                                         error.message)
                                   EXCEPT !.fields = error.fields]]
                /\ UNCHANGED <<orders, res_partner>>
           ELSE /\ res_partner' =
                       [res_partner EXCEPT ![orders[o].partner_id] =
                                               address_values(post.values)]
                /\ orders' = selected.orders
                /\ resp' = [resp EXCEPT ![p] =
                               [Response("one_step_submit", "success", "")
                                   EXCEPT !.order = o,
                                          !.carrier_id = post.carrier_id,
                                          !.totals =
                                              [subtotal |-> amounts.amount_untaxed,
                                               taxes |-> amounts.amount_tax,
                                               delivery |-> selected.delivery_amount,
                                               total |-> amounts.amount_total]]]
        /\ UNCHANGED <<lines, session_order, hist, pc, req, loc>>
        /\ UNCHANGED <<order_address, product_price, rate_vars>>
        /\ UNCHANGED token_vars

\* CustomWebsiteSale._get_available_carriers(order), for the one carrier:
\* its price, 0 with a delivery_message when the quote fails
get_available_carriers(p, s, carrier, quote) ==
    /\ sale_get_order(session_order, s) # 0
    /\ Reply(p, [Response("get_available_carriers", "success", "")
                    EXCEPT !.order = sale_get_order(session_order, s),
                           !.carrier_id = carrier,
                           !.warning = quote # "success",
                           !.totals.delivery =
                               IF quote = "success" THEN fixed_price(carrier)
                               ELSE 0])
    /\ UNCHANGED db

\* a body of POST /api/shop/checkout that names a carrier and no address
CarrierData(carrier) ==
    AddressData(FALSE, EmptyDict, FALSE, EmptyDict, "absent", carrier)

NextCarrier ==
    \/ \E s \in Sessions :
           api_add_to_cart(1, s, 1, 1) /\ UNCHANGED hist
    \/ \E s \in Sessions, carrier \in CarrierIds, quote \in Quotes :
           update_carrier_json(1, s, carrier, quote) /\ UNCHANGED hist
    \/ \E s \in Sessions, post \in CheckoutPosts, quote \in Quotes :
           one_step_submit(1, s, post, quote)
    \/ \E s \in Sessions, carrier \in CarrierIds \ {0} :
           update_checkout_data(1, s, CarrierData(carrier))
    \/ \E s \in Sessions, carrier \in Carriers, quote \in Quotes :
           get_available_carriers(1, s, carrier, quote) /\ UNCHANGED hist
    \/ \E o \in OrderIds, l \in LineIds, remove \in BOOLEAN :
           /\ update_cart_line(1, o, l, [has_quantity |-> TRUE, quantity |-> 1],
                               remove)
           /\ UNCHANGED hist

SpecCarrier == Init /\ [][NextCarrier]_vars

\* the carrier and the totals of the cart of session s
CarrierAndTotals(os, ls, so, s) ==
    IF so[s] = 0 THEN <<0, NoTotals>>
    ELSE <<os[so[s]].carrier_id, totals_of(os, ls, so[s])>>

\* the outcome C24 asks of a selection of a carrier by session s
CarrierSelected(s, carrier, bad) ==
    /\ bad => /\ resp'[1].status = "error"
              /\ CarrierAndTotals(orders', lines', session_order', s)
                     = CarrierAndTotals(orders, lines, session_order, s)
    /\ resp'[1].status = "success"
       => /\ session_order'[s] # 0
          /\ orders'[session_order'[s]].carrier_id = carrier
          /\ resp'[1].totals = totals_of(orders', lines', session_order'[s])

\* C24: selecting a carrier that does not exist, or one whose rate quote
\* fails, is refused and leaves the carrier and the totals of the cart as
\* they were; a selection that reports success has stored the carrier and
\* returns the totals recomputed with it.
C24_CarrierStoredOrRefused ==
    [][\A s \in Sessions, carrier \in CarrierIds \ {0} :
           /\ \A quote \in Quotes :
                  update_carrier_json(1, s, carrier, quote)
                  => CarrierSelected(s, carrier,
                         carrier \notin Carriers \/ quote # "success")
           /\ \A quote \in Quotes, post \in CheckoutPosts :
                  (post.carrier_id = carrier /\ one_step_submit(1, s, post, quote))
                  => CarrierSelected(s, carrier,
                         carrier \notin Carriers \/ quote # "success")
           /\ update_checkout_data(1, s, CarrierData(carrier))
              => CarrierSelected(s, carrier, carrier \notin Carriers)]_vars

\* C25: when the rate collaborator fails for the carrier of a checkout (it
\* reports no success or it raises), the operation still succeeds, the
\* delivery amount it returns is zero and its response carries a warning.
C25_RateFailureWarns ==
    [][\A s \in Sessions, quote \in Quotes \ {"success"} :
           /\ \A post \in CheckoutPosts :
                  (/\ post.carrier_id \in Carriers
                   /\ one_step_error(lines, sale_get_order(session_order, s),
                                     post).message = ""
                   /\ one_step_submit(1, s, post, quote))
                  => /\ resp'[1].status = "success"
                     /\ resp'[1].totals.delivery = 0
                     /\ resp'[1].warning
           /\ \A carrier \in Carriers :
                  get_available_carriers(1, s, carrier, quote)
                  => /\ resp'[1].status = "success"
                     /\ resp'[1].totals.delivery = 0
                     /\ resp'[1].warning]_vars

\* the operations that change a cart and return its amounts, and those of
\* them that return a delivery amount
TotalsOps ==
    {"add_to_cart", "add_product_to_cart", "update_cart_line",
     "api_add_to_cart", "update_carrier_json", "one_step_submit",
     "update_checkout_data"}
DeliveryOps == {"update_carrier_json", "one_step_submit", "update_checkout_data"}

\* C26: the amounts a successful add, change or removal of a line or
\* selection of a carrier returns are those of the cart afterwards: the subtotal is the sum of unit price times
\* quantity over its lines, the total is subtotal plus tax plus delivery, and
\* a delivery amount that is returned is the one of the cart.
C26_TotalsFromCurrentState ==
    [][(/\ resp'[1].status = "success"
        /\ resp'[1].op \in TotalsOps
        /\ resp'[1].op = "one_step_submit" => resp'[1].carrier_id # 0)
       => LET o == resp'[1].order
              returned == resp'[1].totals
              subtotal == SumSubtotal(lines', lines_of(lines', o))
          IN  /\ returned.subtotal = subtotal
              /\ returned.total
                     = subtotal + tax_for(subtotal) + orders'[o].amount_delivery
              /\ resp'[1].op \in DeliveryOps
                 => returned.delivery = orders'[o].amount_delivery]_vars

(***************************************************************************)
(* SpecPrice: lines are added while the catalog changes its prices.        *)
(***************************************************************************)
\* the prices a product can be given
Prices == {1, 2, 3}

\* a write of list_price on the product, from the back office
set_list_price(p, product, price) ==
    /\ pc[p] = "idle"
    /\ price # product_price[product]
    /\ product_price' = [product_price EXCEPT ![product] = price]
    /\ resp' = [resp EXCEPT ![p] = Response("set_list_price", "success", "")]
    /\ UNCHANGED <<db, hist, pc, req, loc, token_vars>>
    /\ UNCHANGED <<res_partner, order_address, rate_vars>>

NextPrice ==
    \/ \E u \in Users, product \in Products, found \in 0..MaxOrders :
           add_to_cart(1, u, product, 1, found) /\ UNCHANGED hist
    \/ \E o \in OrderIds, product \in Products :
           add_product_to_cart(1, o, product, 1) /\ UNCHANGED hist
    \/ \E product \in Products, price \in Prices :
           set_list_price(1, product, price)

SpecPrice == Init /\ [][NextPrice]_vars

\* C27: an add_line leaves the unit price of every line that exists as it
\* is, whatever the price of the catalog: of a line it merges into, only
\* the quantity changes.
C27_PriceCapturedAtFirstAdd ==
    [][(/\ resp'[1].op \in {"add_to_cart", "add_product_to_cart"}
        /\ resp'[1].status = "success")
       => \A l \in LineIds :
              lines[l].exists
              => lines'[l] = [lines[l] EXCEPT !.product_uom_qty =
                                                  lines'[l].product_uom_qty]]_vars

\* a line of the product just added that has been merged into and still has
\* a price that is no longer the price of the catalog
C27_Witness ==
    /\ resp[1].op = "add_to_cart"
    /\ resp[1].status = "success"
    /\ \E l \in LineIds :
           /\ lines[l].exists
           /\ lines[l].order_id = resp[1].order
           /\ lines[l].product_id = resp[1].product_id
           /\ lines[l].product_uom_qty = 2
           /\ lines[l].price_unit # list_price(lines[l].product_id)

(***************************************************************************)
(* SpecRace: add_to_cart requests of one user running concurrently, with   *)
(* the quantities they added on record in hist.                            *)
(***************************************************************************)
NextRace ==
    \E p \in Procs :
        \/ add_to_cart_search(p)
        \/ add_to_cart_create(p)
        \/ add_to_cart_filter(p)
        \/ /\ add_to_cart_write(p)
           /\ hist' = IF resp'[p].status = "success"
                      THEN NoteAdd(hist, loc[p].cart, req[p].product_id,
                                   req[p].quantity)
                      ELSE hist
        \/ add_to_cart_retry(p)

SpecRace == Init /\ [][NextRace]_vars

\* the quantity of the product that the add_to_cart requests answered with
\* success have added, over the first n orders
RECURSIVE SumAdded(_, _, _)
SumAdded(h, product, n) ==
    IF n = 0 THEN 0 ELSE h[n].sum[product] + SumAdded(h, product, n - 1)

\* the lines of the product in the carts of the user
LinesOfProduct(product) ==
    {l \in LineIds : lines[l].exists /\ lines[l].product_id = product}

\* C28: when no add_to_cart request of the user is in flight, a product
\* that requests have added has exactly one line, and its quantity is the
\* sum of the quantities of those requests, whatever their interleaving.
C28_NoLostUpdate ==
    (\A p \in Procs : pc[p] = "idle")
    => \A product \in Products :
           SumAdded(hist, product, MaxOrders) > 0
           => /\ Cardinality(LinesOfProduct(product)) = 1
              /\ \A l \in LinesOfProduct(product) :
                     lines[l].product_uom_qty
                         = SumAdded(hist, product, MaxOrders)

(***************************************************************************)
(* auth_signup: the rate limiter of register_user, _is_rate_limited(ip,     *)
(* limit=5, window=300), statement by statement for concurrent requests.   *)
(***************************************************************************)
limit == 5
window == 300
\* the seconds between two readings of the clock
TickSeconds == 150
\* the timestamps on record the model goes up to
MaxAdmitted == 6

\* time.time()
time_time == now * TickSeconds

\* [t for t in _rate_limit_store[ip_address] if now - t < window]
recent(stamps, t) == SelectSeq(stamps, LAMBDA stamp : t - stamp < window)

\* what is left unchanged by the steps of _is_rate_limited
rate_frame ==
    /\ UNCHANGED <<db, hist, res_partner, order_address, product_price>>
    /\ UNCHANGED token_vars

\* now = time.time(); attempts = [...]: a new list
is_rate_limited_filter(p, ip) ==
    /\ pc[p] = "idle"
    /\ pc' = [pc EXCEPT ![p] = "rl_store"]
    /\ req' = [req EXCEPT ![p] = [NoReq EXCEPT !.op = "is_rate_limited",
                                               !.who = ip]]
    /\ loc' = [loc EXCEPT ![p] =
                  [NoLoc EXCEPT !.now = time_time,
                                !.attempts = recent(rate_limit_store[ip],
                                                    time_time)]]
    /\ resp' = [resp EXCEPT ![p] = NoResp]
    /\ UNCHANGED rate_vars
    /\ rate_frame

\* _rate_limit_store[ip_address] = attempts: the store holds the list of
\* this request, and no longer the list of any other request
is_rate_limited_store(p) ==
    /\ pc[p] = "rl_store"
    /\ rate_limit_store' =
           [rate_limit_store EXCEPT ![req[p].who] = loc[p].attempts]
    /\ loc' = [q \in Procs |->
                  IF q = p THEN [loc[q] EXCEPT !.aliased = TRUE]
                  ELSE IF req[q].op = "is_rate_limited" /\ req[q].who = req[p].who
                  THEN [loc[q] EXCEPT !.aliased = FALSE]
                  ELSE loc[q]]
    /\ pc' = [pc EXCEPT ![p] = "rl_check"]
    /\ UNCHANGED <<req, resp, admitted>>
    /\ rate_frame

is_rate_limited_result(limited) ==
    Response("is_rate_limited", IF limited THEN "limited" ELSE "admitted", "")

\* if len(attempts) >= limit: return True
is_rate_limited_check(p) ==
    /\ pc[p] = "rl_check"
    /\ IF Len(loc[p].attempts) >= limit
       THEN /\ pc' = [pc EXCEPT ![p] = "idle"]
            /\ req' = [req EXCEPT ![p] = NoReq]
            /\ loc' = [loc EXCEPT ![p] = NoLoc]
            /\ resp' = [resp EXCEPT ![p] = is_rate_limited_result(TRUE)]
       ELSE /\ pc' = [pc EXCEPT ![p] = "rl_append"]
            /\ UNCHANGED <<req, loc, resp>>
    /\ UNCHANGED rate_vars
    /\ rate_frame

\* _rate_limit_store[ip_address].append(now); return False.  The list the
\* store holds grows, and with it the attempts of the request it belongs to
is_rate_limited_append(p) ==
    /\ pc[p] = "rl_append"
    /\ Len(admitted[req[p].who]) < MaxAdmitted
    /\ rate_limit_store' =
           [rate_limit_store EXCEPT ![req[p].who] = Append(@, loc[p].now)]
    /\ admitted' =
           [admitted EXCEPT ![req[p].who] =
                                Append(recent(@, time_time), loc[p].now)]
    /\ loc' = [q \in Procs |->
                  IF q = p THEN NoLoc
                  ELSE IF /\ req[q].op = "is_rate_limited"
                          /\ req[q].who = req[p].who
                          /\ loc[q].aliased
                  THEN [loc[q] EXCEPT !.attempts = Append(@, loc[p].now)]
                  ELSE loc[q]]
    /\ pc' = [pc EXCEPT ![p] = "idle"]
    /\ req' = [req EXCEPT ![p] = NoReq]
    /\ resp' = [resp EXCEPT ![p] = is_rate_limited_result(FALSE)]
    /\ rate_frame

NextRate ==
    \/ \E p \in Procs, ip \in Ips : is_rate_limited_filter(p, ip)
    \/ \E p \in Procs : is_rate_limited_store(p)
    \/ \E p \in Procs : is_rate_limited_check(p)
    \/ \E p \in Procs : is_rate_limited_append(p)
    \/ tick

SpecRate == Init /\ [][NextRate]_vars

\* the requests on record in stamps that were let through in the window
\* that starts at t
AdmittedIn(stamps, t) ==
    Cardinality({i \in DOMAIN stamps : stamps[i] >= t /\ stamps[i] - t < window})

\* C29: whatever the interleaving of the requests of an IP address, no
\* window of 300 seconds has more than 5 requests let through, the list of
\* the address never holds more than 5 timestamps, and a request that is
\* refused adds none.
C29_AtMostLimitPerWindow ==
    [][\A ip \in Ips :
           /\ Len(rate_limit_store'[ip]) <= limit
           /\ \A i \in DOMAIN admitted'[ip] :
                  AdmittedIn(admitted'[ip], admitted'[ip][i]) <= limit
           /\ \A p \in Procs :
                  (pc[p] = "rl_check" /\ resp'[p].status = "limited")
                  => rate_limit_store' = rate_limit_store]_vars

====
